---- MODULE Spec2Model ----
(***************************************************************************)
(* Model of the command resolution and execution core of the CLI for       *)
(* Microsoft 365 (class Cli): lazy command loading, option parsing,        *)
(* validation, dispatch and exit.  One run of Spec is one process          *)
(* invocation: Cli.execute is followed step by step through its phases.    *)
(* SpecRender is one call of commandInstance.log, which renders a logged   *)
(* value with Cli.logOutput; SpecPoll is the polling of a copy job by the  *)
(* spo file move and spo folder move commands.                             *)
(***************************************************************************)
EXTENDS Integers, Sequences, FiniteSets, TLC

(***************************************************************************)
(* Bounds of the exploration.                                              *)
(***************************************************************************)
\* largest number of positional command words enumerated for the loader
MaxWords == 3
\* largest number of tokens following the command words
MaxOpts == 3

(***************************************************************************)
(* JavaScript values held by a parsed options object.                      *)
(***************************************************************************)
Undef == [ty |-> "undefined", s |-> "", n |-> 0, items |-> <<>>]
Bool(b) == [ty |-> "boolean", s |-> "", n |-> IF b THEN 1 ELSE 0, items |-> <<>>]
Str(x) == [ty |-> "string", s |-> x, n |-> 0, items |-> <<>>]
Num(i) == [ty |-> "number", s |-> "", n |-> i, items |-> <<>>]
Arr(xs) == [ty |-> "array", s |-> "", n |-> 0, items |-> xs]

\* the words that minimist's isNumber accepts, with their numeric value
NumberWords == ("0" :> 0)

IsNumber(w) == w \in DOMAIN NumberWords

\* JavaScript truthiness of a value (the test `parsedArgs.h`)
Truthy(v) ==
  CASE v.ty = "undefined" -> FALSE
    [] v.ty = "boolean" -> v.n = 1
    [] v.ty = "string" -> v.s # ""
    [] v.ty = "number" -> v.n # 0
    [] OTHER -> TRUE

\* JavaScript `v > -1` (the test `parsedArgs.help > -1`): the value is
\* converted to a number first, and a comparison with NaN is false
GreaterThanMinusOne(v) ==
  CASE v.ty = "undefined" -> FALSE
    [] v.ty = "boolean" -> TRUE
    [] v.ty = "number" -> v.n > -1
    [] v.ty = "string" -> IF v.s = "" THEN TRUE
                          ELSE IF IsNumber(v.s) THEN NumberWords[v.s] > -1
                          ELSE FALSE
    [] OTHER -> FALSE

(***************************************************************************)
(* Command-line tokens.  A token of process.argv is a bare word, a long    *)
(* flag --k or a short flag -k.                                            *)
(***************************************************************************)
Word(w) == [t |-> "word", k |-> w]
Long(k) == [t |-> "long", k |-> k]
Short(k) == [t |-> "short", k |-> k]

\* every key a parsed options object of the model can hold
Keys == {"url", "u", "force", "output", "o", "help", "h", "foo", "0"}

RECURSIVE Join(_, _)
\* Array.prototype.join
Join(ws, sep) ==
  IF Len(ws) = 0 THEN ""
  ELSE IF Len(ws) = 1 THEN ws[1]
  ELSE ws[1] \o sep \o Join(Tail(ws), sep)

(***************************************************************************)
(* minimist(args, opts), for tokens of the three kinds above.  hints is    *)
(* [string, boolean, alias]: the keys typed as strings, the keys typed as  *)
(* booleans and the alias table (a function short -> long).                *)
(***************************************************************************)
NoHints == [string |-> {}, boolean |-> {}, alias |-> <<>>]

\* minimist's aliases[key]: the table is made symmetric
AliasesOf(key, hints) ==
  (IF key \in DOMAIN hints.alias THEN {hints.alias[key]} ELSE {})
    \cup {x \in DOMAIN hints.alias : hints.alias[x] = key}

\* flags.strings: the string-typed keys and their aliases
StringFlags(hints) ==
  hints.string \cup UNION {AliasesOf(k, hints) : k \in hints.string}

AliasIsBoolean(key, hints) ==
  \E x \in AliasesOf(key, hints) : x \in hints.boolean

\* setKey: a second value for a key makes an array, except for booleans
SetKey(old, key, value, hints) ==
  IF old.ty = "undefined" \/ key \in hints.boolean \/ old.ty = "boolean"
  THEN value
  ELSE IF old.ty = "array" THEN Arr(Append(old.items, value))
  ELSE Arr(<<old, value>>)

\* setArg: number-like strings become numbers unless the key is a string
\* flag; the value is stored under the key and under each of its aliases
SetArg(o, key, val, hints) ==
  LET value == IF val.ty = "string" /\ key \notin StringFlags(hints)
                    /\ IsNumber(val.s)
               THEN Num(NumberWords[val.s]) ELSE val
  IN [k \in DOMAIN o |->
        IF k = key \/ k \in AliasesOf(key, hints)
        THEN SetKey(o[k], k, value, hints) ELSE o[k]]

\* the value a flag gets when no value follows it
FlagDefault(key, hints) ==
  IF key \in StringFlags(hints) THEN Str("") ELSE Bool(TRUE)

RECURSIVE MinimistFrom(_, _, _, _)
MinimistFrom(args, i, acc, hints) ==
  IF i > Len(args) THEN acc
  ELSE
    LET arg == args[i]
        hasNext == i < Len(args)
        next == IF hasNext THEN args[i + 1] ELSE Word("")
        takesNext ==
          /\ hasNext
          /\ next.t = "word"
          /\ arg.k \notin hints.boolean
          /\ ~AliasIsBoolean(arg.k, hints)
        boolNext == hasNext /\ next.t = "word" /\ next.k \in {"true", "false"}
    IN IF arg.t = "word"
       THEN MinimistFrom(args, i + 1,
              [acc EXCEPT !.pos = Append(@, arg.k)], hints)
       ELSE IF takesNext
       THEN MinimistFrom(args, i + 2,
              [acc EXCEPT !.opts = SetArg(@, arg.k, Str(next.k), hints)], hints)
       ELSE IF boolNext
       THEN MinimistFrom(args, i + 2,
              [acc EXCEPT !.opts = SetArg(@, arg.k, Bool(next.k = "true"), hints)],
              hints)
       ELSE MinimistFrom(args, i + 1,
              [acc EXCEPT !.opts = SetArg(@, arg.k, FlagDefault(arg.k, hints), hints)],
              hints)

\* boolean-typed keys start as false
InitialOpts(hints) ==
  LET empty == [k \in Keys |-> Undef]
  IN [k \in Keys |->
        IF k \in hints.boolean
             \/ \E b \in hints.boolean : k \in AliasesOf(b, hints)
        THEN Bool(FALSE) ELSE empty[k]]

\* the parsed arguments: pos is the catch-all `_`, opts the other keys
Minimist(args, hints) ==
  MinimistFrom(args, 1, [pos |-> <<>>, opts |-> InitialOpts(hints)], hints)

\* the keys of a parsed options object other than `_`
DefinedKeys(opts) == {k \in DOMAIN opts : opts[k].ty # "undefined"}

(***************************************************************************)
(* Commands.  A command object is what a command file exports: its name,   *)
(* its aliases, its option declarations (already split on / ,|/ into the   *)
(* tokens -x, --xyz, <arg> and [arg]) and its type hints.                  *)
(***************************************************************************)
DShort(k) == [t |-> "short", k |-> k]
DLong(k) == [t |-> "long", k |-> k]
DReq(k) == [t |-> "req", k |-> k]
DOpt(k) == [t |-> "opt", k |-> k]

\* '-o, --output [output]'
OutputOption == <<DShort("o"), DLong("output"), DOpt("output")>>

VersionCommand ==
  [id |-> "version", name |-> "version", alias |-> <<>>,
   options |-> <<OutputOption>>,
   string |-> {}, boolean |-> {}]

CompletionCommand ==
  [id |-> "completion", name |-> "completion", alias |-> <<>>,
   options |-> <<OutputOption>>,
   string |-> {}, boolean |-> {}]

\* a command whose file is not named after it
SpoSetCommand ==
  [id |-> "spoSet", name |-> "spo set", alias |-> <<>>,
   options |-> <<OutputOption>>,
   string |-> {}, boolean |-> {}]

\* '-u, --url <url>', '--force', '-o, --output [output]'
SpoTenantAppCatalogAddCommand ==
  [id |-> "spoTenantAppCatalogAdd", name |-> "spo tenant appcatalog add",
   alias |-> <<"spo add">>,
   options |-> <<<<DShort("u"), DLong("url"), DReq("url")>>,
                 <<DLong("force")>>,
                 OutputOption>>,
   string |-> {"url"}, boolean |-> {"force"}]

Commands ==
  {VersionCommand, CompletionCommand, SpoSetCommand,
   SpoTenantAppCatalogAddCommand}

CommandById(id) == CHOOSE c \in Commands : c.id = id

(***************************************************************************)
(* The files under <rootFolder>/m365, in the order readdirR lists them.    *)
(* A file is its directory segments, its base name and its extension.      *)
(***************************************************************************)
File(dir, base, ext) == [dir |-> dir, base |-> base, ext |-> ext]

Files ==
  << File(<<"m365", "commands">>, "completion", ".js"),
     File(<<"m365", "commands">>, "version", ".js"),
     File(<<"m365", "spo", "commands">>, "spo-add", ".js"),
     File(<<"m365", "spo", "commands", "tenant">>, "tenant-appcatalog-add", ".js"),
     File(<<"m365", "spo", "commands", "tenant">>, "tenant-appcatalog-add", ".spec.js"),
     File(<<"m365", "spo">>, "spo-set", ".js") >>

\* What require() of a file yields: "absent" (no such file), "notcmd" (a
\* module that is no Command instance), "throws" (loading throws), or the id
\* of the command object the module exports.  The spec file throws when it
\* is loaded outside the test runner; the last file exports a command but
\* is not under a commands directory.
Contents ==
  << {"completion"},
     {"version", "throws"},
     {"absent", "spoSet"},
     {"spoTenantAppCatalogAdd", "notcmd", "throws"},
     {"throws"},
     {"spoSet"} >>

Disks ==
  {<<c1, c2, c3, c4, c5, c6>> :
     c1 \in Contents[1], c2 \in Contents[2], c3 \in Contents[3],
     c4 \in Contents[4], c5 \in Contents[5], c6 \in Contents[6]}

\* the disk on which every command file is present and loads
StandardDisk ==
  <<"completion", "version", "absent", "spoTenantAppCatalogAdd", "throws",
    "spoSet">>

IsCommand(content) == content \in {c.id : c \in Commands}

(***************************************************************************)
(* Cli.getCommandOptions                                                   *)
(***************************************************************************)
RECURSIVE ScanOptionArgs(_, _, _)
\* optionArgs.forEach: the last -x sets short, the last --xyz sets long, and
\* whichever of the two comes last sets name
ScanOptionArgs(optionArgs, i, acc) ==
  IF i > Len(optionArgs) THEN acc
  ELSE LET o == optionArgs[i]
       IN ScanOptionArgs(optionArgs, i + 1,
            IF o.t = "long" THEN [acc EXCEPT !.long = o.k, !.name = o.k]
            ELSE IF o.t = "short" THEN [acc EXCEPT !.short = o.k, !.name = o.k]
            ELSE acc)

\* short or long "" stands for undefined
GetOption(option) ==
  ScanOptionArgs(option, 1,
    [long |-> "", short |-> "", name |-> "",
     required |-> \E i \in DOMAIN option : option[i].t = "req"])

GetCommandOptions(command) ==
  [i \in DOMAIN command.options |-> GetOption(command.options[i])]

(***************************************************************************)
(* Cli.loadCommand: the descriptor pushed onto this.commands               *)
(***************************************************************************)
CommandInfo(command) ==
  [aliases |-> command.alias,
   name |-> command.name,
   command |-> command.id,
   options |-> GetCommandOptions(command)]

LoadCommand(commands, command) == Append(commands, CommandInfo(command))

(***************************************************************************)
(* Cli.loadAllCommands                                                     *)
(***************************************************************************)
\* file.indexOf('/commands/') > -1 && file.endsWith('.js')
\*   && !file.endsWith('.spec.js')
IsCommandFile(file) ==
  /\ \E i \in DOMAIN file.dir : file.dir[i] = "commands"
  /\ file.ext = ".js"

RECURSIVE LoadAllFromIgnoringErrors(_, _, _)
\* faulty variant of LoadAllFrom: a file that throws is skipped
LoadAllFromIgnoringErrors(disk, i, commands) ==
  IF i > Len(Files) THEN [commands |-> commands, fatal |-> FALSE]
  ELSE IF IsCommandFile(Files[i]) /\ IsCommand(disk[i])
  THEN LoadAllFromIgnoringErrors(disk, i + 1,
         LoadCommand(commands, CommandById(disk[i])))
  ELSE LoadAllFromIgnoringErrors(disk, i + 1, commands)

RECURSIVE LoadAllFrom(_, _, _)
\* files.forEach: a file that throws ends the process (closeWithError), the
\* files after it are not loaded
LoadAllFrom(disk, i, commands) ==
  IF i > Len(Files) THEN [commands |-> commands, fatal |-> FALSE]
  ELSE IF disk[i] = "absent" \/ ~IsCommandFile(Files[i])
  THEN LoadAllFrom(disk, i + 1, commands)
  ELSE IF disk[i] = "throws" THEN [commands |-> commands, fatal |-> TRUE]
  ELSE IF IsCommand(disk[i])
  THEN LoadAllFrom(disk, i + 1, LoadCommand(commands, CommandById(disk[i])))
  ELSE LoadAllFrom(disk, i + 1, commands)

LoadAllCommands(disk, commands) == LoadAllFrom(disk, 1, commands)

(***************************************************************************)
(* Cli.loadCommandFromArgs                                                 *)
(***************************************************************************)
\* the file the command words name
CommandFilePath(commandNameWords) ==
  IF Len(commandNameWords) = 1
  THEN File(<<"m365", "commands">>, commandNameWords[1], ".js")
  ELSE IF Len(commandNameWords) = 2
  THEN File(<<"m365", commandNameWords[1], "commands">>,
            Join(commandNameWords, "-"), ".js")
  ELSE File(<<"m365", commandNameWords[1], "commands", commandNameWords[2]>>,
            Join(Tail(commandNameWords), "-"), ".js")

\* what is on the disk at a path: "absent" when no file is there
ContentAt(disk, path) ==
  IF \E i \in DOMAIN Files : Files[i] = path /\ disk[i] # "absent"
  THEN disk[CHOOSE i \in DOMAIN Files : Files[i] = path /\ disk[i] # "absent"]
  ELSE "absent"

\* faulty variant of LoadCommandFromArgs: every invocation loads all commands
LoadCommandFromArgsEager(disk, commandNameWords) ==
  LoadAllCommands(disk, <<>>)

\* faulty variant of LoadCommandFromArgs: the 'completion' test is missing
LoadCommandFromArgsNoCompletion(disk, commandNameWords) ==
  IF Len(commandNameWords) = 0 THEN LoadAllCommands(disk, <<>>)
  ELSE LET content == ContentAt(disk, CommandFilePath(commandNameWords))
       IN IF IsCommand(content)
          THEN [commands |-> LoadCommand(<<>>, CommandById(content)),
                fatal |-> FALSE]
          ELSE LoadAllCommands(disk, <<>>)

LoadCommandFromArgs(disk, commandNameWords) ==
  IF Len(commandNameWords) = 0 THEN LoadAllCommands(disk, <<>>)
  ELSE IF \E i \in DOMAIN commandNameWords : commandNameWords[i] = "completion"
  THEN LoadAllCommands(disk, <<>>)
  ELSE LET content == ContentAt(disk, CommandFilePath(commandNameWords))
       IN IF content = "absent" THEN LoadAllCommands(disk, <<>>)
          ELSE IF IsCommand(content)
          THEN [commands |-> LoadCommand(<<>>, CommandById(content)),
                fatal |-> FALSE]
          ELSE LoadAllCommands(disk, <<>>)

(***************************************************************************)
(* Cli.execute, lines 61-71: the first loaded command whose name or one of *)
(* whose aliases is the current command name; 0 when there is none.        *)
(***************************************************************************)
\* faulty variant of Matches: the aliases are not looked at
MatchesNameOnly(command, currentCommandName) ==
  command.name = currentCommandName

Matches(command, currentCommandName) ==
  \/ command.name = currentCommandName
  \/ \E j \in DOMAIN command.aliases : command.aliases[j] = currentCommandName

\* faulty variant of FindCommand: the first command of the registry is
\* selected whatever its name
FindCommandFirst(commands, currentCommandName) ==
  IF currentCommandName # "" /\ Len(commands) > 0 THEN 1 ELSE 0

FindCommand(commands, currentCommandName) ==
  IF currentCommandName # ""
       /\ \E i \in DOMAIN commands : Matches(commands[i], currentCommandName)
  THEN CHOOSE i \in DOMAIN commands :
         /\ Matches(commands[i], currentCommandName)
         /\ \A j \in 1..(i - 1) : ~Matches(commands[j], currentCommandName)
  ELSE 0

(***************************************************************************)
(* Cli.getCommandOptionsFromArgs: the hints of the second parse            *)
(***************************************************************************)
\* faulty variant of AliasTable: no alias is declared
AliasTableEmpty(options) == <<>>

\* alias[option.short] = option.long for every option with both; a later
\* option with the same short form overwrites an earlier one
AliasTable(options) ==
  LET both == {i \in DOMAIN options :
                 options[i].short # "" /\ options[i].long # ""}
      last(sh) == CHOOSE i \in both :
                    /\ options[i].short = sh
                    /\ \A j \in both : options[j].short = sh => j <= i
  IN [sh \in {options[i].short : i \in both} |-> options[last(sh)].long]

\* faulty variant of GetCommandOptionsFromArgs: the first argument is not
\* parsed
GetCommandOptionsFromArgsSkipFirst(args, commandInfo) ==
  Minimist(Tail(args),
    [string |-> CommandById(commandInfo.command).string,
     boolean |-> CommandById(commandInfo.command).boolean,
     alias |-> AliasTable(commandInfo.options)])

GetCommandOptionsFromArgs(args, commandInfo) ==
  Minimist(args,
    [string |-> CommandById(commandInfo.command).string,
     boolean |-> CommandById(commandInfo.command).boolean,
     alias |-> AliasTable(commandInfo.options)])

(***************************************************************************)
(* Errors and process exit.  An error is a CommandError or anything else   *)
(* (a string, an exception); code is the CommandError's code, Undef when   *)
(* it has none.                                                            *)
(***************************************************************************)
CommandError(message, code) ==
  [isCommandError |-> TRUE, message |-> message, code |-> code]
PlainError(message) ==
  [isCommandError |-> FALSE, message |-> message, code |-> Undef]
NoError == [isCommandError |-> FALSE, message |-> "", code |-> Undef]

\* Cli.printHelp: the resolved command's help when there is one, the list
\* of commands otherwise
HelpKind(commandToExecute) ==
  IF commandToExecute # 0 THEN "command" ELSE "general"

\* faulty variant of CloseWithError: the error's code is not used
CloseWithErrorAlwaysOne(error, showHelp, commandToExecute) ==
  [exitCode |-> 1,
   stderr |-> error.message,
   help |-> IF showHelp THEN HelpKind(commandToExecute) ELSE "none"]

\* Cli.closeWithError: the exit code, what is written to stderr and the
\* help that is printed before process.exit
CloseWithError(error, showHelp, commandToExecute) ==
  [exitCode |-> IF error.isCommandError /\ Truthy(error.code)
                THEN error.code.n ELSE 1,
   stderr |-> error.message,
   help |-> IF showHelp THEN HelpKind(commandToExecute) ELSE "none"]

(***************************************************************************)
(* Cli.execute: the tests of lines 87-141                                  *)
(***************************************************************************)
ShowHelpCondition(commandToExecute, showHelp, parsedArgs) ==
  \/ commandToExecute = 0
  \/ showHelp
  \/ Truthy(parsedArgs.opts["h"])
  \/ GreaterThanMinusOne(parsedArgs.opts["help"])
  \/ Len(parsedArgs.pos) = 0
  \/ parsedArgs.opts["0"] = Str("help")

OptionMatches(optionFromArgs, options) ==
  \E i \in DOMAIN options :
    \/ optionFromArgs = options[i].long
    \/ optionFromArgs = options[i].short

RECURSIVE FlagKeys(_)
\* the keys of the flags of args in the order of their first use, which is
\* the order `for ... in` visits them
FlagKeys(args) ==
  IF Len(args) = 0 THEN <<>>
  ELSE IF Head(args).t = "word" THEN FlagKeys(Tail(args))
  ELSE <<Head(args).k>> \o FlagKeys(Tail(args))

\* faulty variant of FirstInvalidOption: only the first parsed option is tested
FirstInvalidOptionFirstOnly(args, optionsFromArgs, options) ==
  LET keys == FlagKeys(args)
  IN IF keys # <<>> /\ keys[1] \in DefinedKeys(optionsFromArgs.opts)
          /\ ~OptionMatches(keys[1], options)
     THEN keys[1] ELSE ""

\* the first parsed option that no declared option matches: "" when every
\* one matches
FirstInvalidOption(args, optionsFromArgs, options) ==
  LET keys == FlagKeys(args)
      bad == {i \in DOMAIN keys :
                /\ keys[i] \in DefinedKeys(optionsFromArgs.opts)
                /\ ~OptionMatches(keys[i], options)}
  IN IF bad = {} THEN ""
     ELSE keys[CHOOSE i \in bad : \A j \in bad : i <= j]

IsDefined(optionsFromArgs, name) ==
  name \in DOMAIN optionsFromArgs.opts /\ optionsFromArgs.opts[name].ty # "undefined"

\* faulty variant of FirstMissingRequired: the first declared option is not tested
FirstMissingRequiredSkipFirst(optionsFromArgs, options) ==
  LET missing == {i \in DOMAIN options :
                    /\ i > 1
                    /\ options[i].required
                    /\ ~IsDefined(optionsFromArgs, options[i].name)}
  IN IF missing = {} THEN 0 ELSE CHOOSE i \in missing : \A j \in missing : i <= j

\* the first required option without a value: 0 when there is none
FirstMissingRequired(optionsFromArgs, options) ==
  LET missing == {i \in DOMAIN options :
                    options[i].required /\ ~IsDefined(optionsFromArgs, options[i].name)}
  IN IF missing = {} THEN 0 ELSE CHOOSE i \in missing : \A j \in missing : i <= j

\* faulty variant of ValidationFails: the result is compared with false
ValidationFailsOnFalse(validationResult) == validationResult = "false"

\* faulty variant of ValidationFails: every result but true is fatal
ValidationFailsUnlessTrue(validationResult) ==
  validationResult \in {"false", "message"}

\* typeof validationResult === 'string'
ValidationFails(validationResult) == validationResult = "message"

\* what command.validate() and the function it returns can yield: no
\* function, true, false, or a message
ValidationResults == {"none", "true", "false", "message"}

\* the errors a command's action can pass to the completion callback
CallbackErrors ==
  {CommandError("failed", Undef), CommandError("failed", Num(0)),
   CommandError("failed", Num(2)), PlainError("failed")}

(***************************************************************************)
(* The inputs of one invocation                                            *)
(***************************************************************************)
WordAlphabet ==
  {"version", "spo", "tenant", "appcatalog", "add", "appcatalog-add",
   "completion"}

SeqsUpTo(S, n) == UNION {[1..m -> S] : m \in 0..n}

Words(ws) == [i \in DOMAIN ws |-> Word(ws[i])]

\* the command words of the invocations that carry options
PipelineWords ==
  {<<>>, <<"version">>, <<"spo", "add">>,
   <<"spo", "tenant", "appcatalog", "add">>, <<"spo", "tenant">>}

TailTokens ==
  {Long("url"), Short("u"), Long("force"), Long("help"), Short("h"),
   Long("foo"), Word("v")}

VARIABLES
  argv,               \* process.argv.slice(2)
  disk,               \* the files under rootFolder
  pc,                 \* where Cli.execute is
  showHelp,
  rawArgs,
  parsedArgs,
  commands,           \* this.commands
  currentCommandName, \* this.currentCommandName
  commandToExecute,   \* index in commands of this.commandToExecute, 0: none
  optionsFromArgs,    \* this.optionsFromArgs.options
  allowUnknown,       \* what command.allowUnknownOptions() returned
  validationResult,   \* what the command's validation returned, "notrun"
                      \* before it is asked
  actionCalls,        \* number of calls of the command's action
  actionArgs,         \* the options the action was called with
  callbackError,      \* the error the action passed to the callback
  exitCode,           \* the code process.exit was called with, -1: running
  stderr,             \* the error message written by closeWithError
  help,               \* the help printed: "none", "general" or "command"
  phases              \* the phases of execute started so far

\* the state of Cli.execute
cliVars ==
  <<argv, disk, pc, showHelp, rawArgs, parsedArgs, commands,
    currentCommandName, commandToExecute, optionsFromArgs, allowUnknown,
    validationResult, actionCalls, actionArgs, callbackError, exitCode,
    stderr, help, phases>>

VARIABLES
  logStatement,       \* the value a command passes to commandInstance.log
  logOptions,         \* the options logOutput is called with
  rendered,           \* what Cli.logOutput returned
  printed             \* the values console.log was called with

\* the state of one call of commandInstance.log
renderVars == <<logStatement, logOptions, rendered, printed>>

VARIABLES
  pollCommand,        \* the command that polls: "file move" or "folder move"
  pollPc,             \* "start", "request" (a progress request is pending),
                      \* "timer" (a timer is scheduled), "settled", "threw"
                      \* (the response handler threw), "idle"
  pollCount,
  retryAttemptsCount,
  response,           \* the last response or error of a progress request
  promise,            \* the promise of waitForJobResult / getCopyJobProgress
  requestsPending,    \* the progress requests made and not yet answered
  timersScheduled,    \* the timers set by setTimeout that did not fire yet
  settleCalls         \* the calls of resolve and reject so far, in order

\* the state of the polling of a copy job
pollVars ==
  <<pollCommand, pollPc, pollCount, retryAttemptsCount, response, promise,
    requestsPending, timersScheduled, settleCalls>>

VARIABLES
  runCommand,         \* the command whose action runs, "none" without one
  runOptions,         \* args.options of the action, with the command's
                      \* verbose flag
  runPc,              \* where the action is: "start", the name of the call
                      \* it waits for, "done" after the completion
                      \* callback, "idle"
  runCalls,           \* the calls of remote operations made so far, in order
  runResults,         \* how the calls answered so far ended, in order:
                      \* [ok, value, error]
  runLogged,          \* the values passed to cmd.log so far, in order
  runCallbacks        \* the arguments of the calls of cb so far, in order

\* the state of one run of a command's action
runVars ==
  <<runCommand, runOptions, runPc, runCalls, runResults, runLogged,
    runCallbacks>>

VARIABLES
  optionDeclared,     \* option.option of a declared option, as its tokens
  optionsExtracted    \* the options array of getCommandOptions

\* the state of the extraction of one declared option
optionVars == <<optionDeclared, optionsExtracted>>

\* the state that Cli.execute itself does not touch
nonCliVars == <<renderVars, pollVars, runVars, optionVars>>

vars == <<cliVars, nonCliVars>>

NoArgs == [pos |-> <<>>, opts |-> [k \in Keys |-> Undef]]

InitState ==
  /\ pc = "start"
  /\ showHelp = FALSE
  /\ rawArgs = <<>>
  /\ parsedArgs = NoArgs
  /\ commands = <<>>
  /\ currentCommandName = ""
  /\ commandToExecute = 0
  /\ optionsFromArgs = NoArgs
  /\ allowUnknown = FALSE
  /\ validationResult = "notrun"
  /\ actionCalls = 0
  /\ actionArgs = NoArgs
  /\ callbackError = NoError
  /\ exitCode = -1
  /\ stderr = ""
  /\ help = "none"
  /\ phases = <<>>

\* nothing has been logged
NotRendered == [form |-> "none", text |-> "", lines |-> <<>>, columns |-> <<>>, rows |-> <<>>]

NoLogOptions == [query |-> Undef, help |-> Undef, output |-> Undef]

InitNoLog ==
  /\ logStatement = Undef
  /\ logOptions = NoLogOptions
  /\ rendered = NotRendered
  /\ printed = <<>>

\* a promise: state is "pending", "resolved" or "rejected", value is what
\* it was rejected with
Pending == [state |-> "pending", value |-> ""]

\* a response of GetCopyJobProgress or the error of the request: JobState
\* is a number or Undef, hasLogs tells whether the response has Logs, Logs
\* are its entries; NoResponse before the first one
NoResponse ==
  [ok |-> FALSE, JobState |-> Undef, hasLogs |-> FALSE, Logs |-> <<>>, error |-> ""]

\* the outcome of a remote call: resolved with a value or rejected with an
\* error; NoResult before the first one
CallResolved(value) == [ok |-> TRUE, value |-> value, error |-> ""]
CallRejected(error) == [ok |-> FALSE, value |-> Undef, error |-> error]
NoResult == [ok |-> FALSE, value |-> Undef, error |-> "none"]

\* how the last answered call ended
runResult ==
  IF runResults = <<>> THEN NoResult ELSE runResults[Len(runResults)]

\* no action of a command runs
InitNoRun ==
  /\ runCommand = "none"
  /\ runOptions = <<>>
  /\ runPc = "idle"
  /\ runCalls = <<>>
  /\ runResults = <<>>
  /\ runLogged = <<>>
  /\ runCallbacks = <<>>

\* no option is extracted
InitNoOption ==
  /\ optionDeclared = <<>>
  /\ optionsExtracted = <<>>

\* no copy job is polled
InitNoPoll ==
  /\ pollCommand = "none"
  /\ pollPc = "idle"
  /\ pollCount = 0
  /\ retryAttemptsCount = 0
  /\ response = NoResponse
  /\ promise = Pending
  /\ requestsPending = 0
  /\ timersScheduled = 0
  /\ settleCalls = <<>>

\* command words alone, on every disk
InitLoader ==
  /\ argv \in {Words(ws) : ws \in SeqsUpTo(WordAlphabet, MaxWords)}
  /\ disk \in Disks

\* command words followed by options, with or without a leading help
InitPipeline ==
  /\ \E h \in {<<>>, <<Word("help")>>}, ws \in PipelineWords,
        tail \in SeqsUpTo(TailTokens, MaxOpts) :
        argv = h \o Words(ws) \o tail
  /\ disk = StandardDisk

Init ==
  (InitLoader \/ InitPipeline) /\ InitState /\ InitNoLog /\ InitNoPoll /\ InitNoRun
    /\ InitNoOption

\* process.exit(code)
Exit(out) ==
  /\ pc' = "exited"
  /\ exitCode' = out.exitCode
  /\ stderr' = out.stderr
  /\ help' = out.help
  /\ UNCHANGED nonCliVars

Continue(next) ==
  /\ pc' = next
  /\ UNCHANGED <<exitCode, stderr, help>>
  /\ UNCHANGED nonCliVars

\* lines 47-56: strip a leading 'help', parse without hints
Preparse ==
  /\ pc = "start"
  /\ LET isHelp == Len(argv) > 0 /\ argv[1] = Word("help")
         raw == IF isHelp THEN Tail(argv) ELSE argv
     IN /\ showHelp' = isHelp
        /\ rawArgs' = raw
        /\ parsedArgs' = Minimist(raw, NoHints)
  /\ phases' = Append(phases, "parse")
  /\ Continue("load")
  /\ UNCHANGED <<argv, disk, commands, currentCommandName, commandToExecute,
                 optionsFromArgs, allowUnknown, validationResult, actionCalls,
                 actionArgs, callbackError>>

\* line 59: loadCommandFromArgs(parsedArgs._)
Load ==
  /\ pc = "load"
  /\ currentCommandName' = Join(parsedArgs.pos, " ")
  /\ LET r == LoadCommandFromArgs(disk, parsedArgs.pos)
     IN /\ commands' = r.commands
        /\ IF r.fatal
           THEN Exit(CloseWithError(PlainError("load failure"), FALSE, commandToExecute))
           ELSE Continue("select")
  /\ phases' = Append(phases, "load")
  /\ UNCHANGED <<argv, disk, showHelp, rawArgs, parsedArgs, commandToExecute,
                 optionsFromArgs, allowUnknown, validationResult, actionCalls,
                 actionArgs, callbackError>>

\* lines 61-71
SelectCommand ==
  /\ pc = "select"
  /\ commandToExecute' = FindCommand(commands, currentCommandName)
  /\ Continue("reparse")
  /\ UNCHANGED <<argv, disk, showHelp, rawArgs, parsedArgs, commands,
                 currentCommandName, optionsFromArgs, allowUnknown,
                 validationResult, actionCalls, actionArgs, callbackError,
                 phases>>

\* faulty variant of ParseOptions: execute goes on to dispatch without validating
ParseOptionsThenDispatch ==
  /\ pc = "reparse"
  /\ IF commandToExecute # 0
     THEN /\ optionsFromArgs' =
               GetCommandOptionsFromArgs(rawArgs, commands[commandToExecute])
          /\ phases' = Append(phases, "reparse")
          /\ Continue("dispatch")
     ELSE /\ optionsFromArgs' = parsedArgs
          /\ phases' = phases
          /\ Continue("help")
  /\ UNCHANGED <<argv, disk, showHelp, rawArgs, parsedArgs, commands,
                 currentCommandName, commandToExecute, allowUnknown,
                 validationResult, actionCalls, actionArgs, callbackError>>

\* lines 73-85
ParseOptions ==
  /\ pc = "reparse"
  /\ IF commandToExecute # 0
     THEN /\ optionsFromArgs' =
               GetCommandOptionsFromArgs(rawArgs, commands[commandToExecute])
          /\ phases' = Append(phases, "reparse")
     ELSE /\ optionsFromArgs' = parsedArgs
          /\ phases' = phases
  /\ Continue("help")
  /\ UNCHANGED <<argv, disk, showHelp, rawArgs, parsedArgs, commands,
                 currentCommandName, commandToExecute, allowUnknown,
                 validationResult, actionCalls, actionArgs, callbackError>>

\* lines 87-97
HelpCheck ==
  /\ pc = "help"
  /\ IF ShowHelpCondition(commandToExecute, showHelp, parsedArgs)
     THEN Exit([exitCode |-> 0, stderr |-> "",
                help |-> HelpKind(commandToExecute)])
     ELSE Continue("unknown")
  /\ UNCHANGED <<argv, disk, showHelp, rawArgs, parsedArgs, commands,
                 currentCommandName, commandToExecute, optionsFromArgs,
                 allowUnknown, validationResult, actionCalls, actionArgs,
                 callbackError, phases>>

\* lines 99-123
CheckUnknownOptions ==
  /\ pc = "unknown"
  /\ \E allow \in BOOLEAN :
       /\ allowUnknown' = allow
       /\ LET bad == FirstInvalidOption(rawArgs, optionsFromArgs,
                       commands[commandToExecute].options)
          IN IF ~allow /\ bad # ""
             THEN Exit(CloseWithError(PlainError("Invalid option: '" \o bad \o "'"),
                                      TRUE, commandToExecute))
             ELSE Continue("required")
  /\ phases' = Append(phases, "validate")
  /\ UNCHANGED <<argv, disk, showHelp, rawArgs, parsedArgs, commands,
                 currentCommandName, commandToExecute, optionsFromArgs,
                 validationResult, actionCalls, actionArgs, callbackError>>

\* lines 125-132
CheckRequiredOptions ==
  /\ pc = "required"
  /\ LET options == commands[commandToExecute].options
         i == FirstMissingRequired(optionsFromArgs, options)
     IN IF i # 0
        THEN Exit(CloseWithError(
               PlainError("Required option " \o options[i].name \o " not specified"),
               TRUE, commandToExecute))
        ELSE Continue("validate")
  /\ UNCHANGED <<argv, disk, showHelp, rawArgs, parsedArgs, commands,
                 currentCommandName, commandToExecute, optionsFromArgs,
                 allowUnknown, validationResult, actionCalls, actionArgs,
                 callbackError, phases>>

\* lines 134-141
Validate ==
  /\ pc = "validate"
  /\ \E r \in ValidationResults :
       /\ validationResult' = r
       /\ IF ValidationFails(r)
          THEN Exit(CloseWithError(PlainError("validation"), TRUE, commandToExecute))
          ELSE Continue("dispatch")
  /\ UNCHANGED <<argv, disk, showHelp, rawArgs, parsedArgs, commands,
                 currentCommandName, commandToExecute, optionsFromArgs,
                 allowUnknown, actionCalls, actionArgs, callbackError, phases>>

\* lines 143-159: the action is called with this.optionsFromArgs
Dispatch ==
  /\ pc = "dispatch"
  /\ actionCalls' = actionCalls + 1
  /\ actionArgs' = optionsFromArgs
  /\ phases' = Append(phases, "dispatch")
  /\ Continue("running")
  /\ UNCHANGED <<argv, disk, showHelp, rawArgs, parsedArgs, commands,
                 currentCommandName, commandToExecute, optionsFromArgs,
                 allowUnknown, validationResult, callbackError>>

\* lines 159-165: the completion callback
Callback ==
  /\ pc = "running"
  /\ \E err \in CallbackErrors \cup {NoError} :
       /\ callbackError' = err
       /\ IF err # NoError
          THEN Exit(CloseWithError(err, FALSE, commandToExecute))
          ELSE Exit([exitCode |-> 0, stderr |-> "", help |-> "none"])
  /\ UNCHANGED <<argv, disk, showHelp, rawArgs, parsedArgs, commands,
                 currentCommandName, commandToExecute, optionsFromArgs,
                 allowUnknown, validationResult, actionCalls, actionArgs,
                 phases>>

Next ==
  \/ Preparse
  \/ Load
  \/ SelectCommand
  \/ ParseOptions
  \/ HelpCheck
  \/ CheckUnknownOptions
  \/ CheckRequiredOptions
  \/ Validate
  \/ Dispatch
  \/ Callback

Spec == Init /\ [][Next]_vars

(***************************************************************************)
(* Properties                                                              *)
(***************************************************************************)
\* execute is past the help test of lines 87-97 with a resolved command
Resolved == commandToExecute # 0

\* the process ended inside loadAllCommands
LoadFatal ==
  pc = "exited" /\ phases # <<>> /\ phases[Len(phases)] = "load" /\ exitCode # 0

\* the help test of lines 87-97 has been made
PastHelpTest ==
  pc \in {"unknown", "required", "validate", "dispatch", "running"}
    \/ (pc = "exited" /\ ~LoadFatal)

\* the process ended at the help test itself
ExitedAtHelpTest ==
  pc = "exited" /\ ~LoadFatal /\ exitCode = 0 /\ actionCalls = 0

\* the options of the resolved command
DeclaredOptions == commands[commandToExecute].options

\* a required option has no value under its name
RequiredMissing ==
  \E i \in DOMAIN DeclaredOptions :
    /\ DeclaredOptions[i].required
    /\ \/ DeclaredOptions[i].name \notin DOMAIN optionsFromArgs.opts
       \/ optionsFromArgs.opts[DeclaredOptions[i].name] = Undef

\* C1: when a command is resolved, help is not requested and a required
\* option has no value under its name, the action is never invoked and the
\* process ends with an error, a nonzero exit code and the command's help.
C1_RequiredOptionEnforced ==
  (PastHelpTest /\ Resolved /\ ~ExitedAtHelpTest /\ RequiredMissing)
    => /\ actionCalls = 0
       /\ pc \notin {"dispatch", "running"}
       /\ pc = "exited" => (exitCode # 0 /\ stderr # "" /\ help = "command")

C1_Witness ==
  /\ pc = "exited"
  /\ stderr = "Required option url not specified"
  /\ exitCode = 1
  /\ actionCalls = 0

\* the parsed keys that are no declared option's name, short or long
UnknownKeys ==
  {k \in DefinedKeys(optionsFromArgs.opts) :
     \A i \in DOMAIN DeclaredOptions :
       /\ k # DeclaredOptions[i].name
       /\ k # DeclaredOptions[i].short
       /\ k # DeclaredOptions[i].long}

\* the unknown-option test of lines 99-123 has been made
UnknownChecked == \E i \in DOMAIN phases : phases[i] = "validate"

\* C2: a parsed key that is no declared option's name, short or long is
\* rejected before dispatch with an error naming such a key when the command
\* does not allow unknown options; when it does, the key is not rejected
\* and the action receives it with the value that was parsed.
C2_UnknownOptionRejected ==
  (UnknownChecked /\ UnknownKeys # {})
    => IF allowUnknown
       THEN /\ \A k \in UnknownKeys : stderr # "Invalid option: '" \o k \o "'"
            /\ actionCalls > 0 =>
                 \A k \in UnknownKeys : actionArgs.opts[k] = optionsFromArgs.opts[k]
       ELSE /\ pc = "exited"
            /\ actionCalls = 0
            /\ exitCode # 0
            /\ help = "command"
            /\ \E k \in UnknownKeys : stderr = "Invalid option: '" \o k \o "'"

C2_Witness ==
  /\ pc = "exited"
  /\ ~allowUnknown
  /\ stderr = "Invalid option: 'foo'"
  /\ optionsFromArgs.opts["foo"] # Undef
  /\ actionCalls = 0

\* C3: a validation result that is a string is fatal: the error is
\* reported, the command's help is shown, the exit code is nonzero and the
\* action is not invoked; with no validation function, or with the result
\* true, execute goes on to dispatch.
C3_ValidationResult ==
  /\ validationResult = "message"
       => /\ pc = "exited"
          /\ exitCode # 0
          /\ stderr # ""
          /\ help = "command"
          /\ actionCalls = 0
  /\ validationResult \in {"none", "true"}
       => /\ pc \in {"dispatch", "running", "exited"}
          /\ pc \in {"running", "exited"} => actionCalls = 1

C3_Witness ==
  /\ validationResult = "message"
  /\ pc = "exited"
  /\ exitCode = 1
  /\ help = "command"

\* the completion callback has been called
CallbackCalled == pc = "exited" /\ actionCalls > 0

\* C4: after the completion callback the exit code is 0 when no error was
\* passed; with an error it is the nonzero code the error declares, and 1
\* when it declares none (or declares 0); it is never 0.
C4_ExitCode ==
  CallbackCalled
    => IF callbackError = NoError THEN exitCode = 0
       ELSE /\ exitCode # 0
            /\ IF /\ callbackError.isCommandError
                  /\ callbackError.code.ty = "number"
                  /\ callbackError.code.n # 0
               THEN exitCode = callbackError.code.n
               ELSE exitCode = 1

C4_Witness ==
  /\ CallbackCalled
  /\ callbackError = CommandError("failed", Num(2))
  /\ exitCode = 2

\* argv asks for help: a leading 'help', or a -h or --help flag
HelpFlagPresent ==
  \E i \in DOMAIN argv : argv[i] \in {Long("help"), Short("h")}

HelpRequested ==
  \/ commandToExecute = 0
  \/ (Len(argv) > 0 /\ argv[1] = Word("help"))
  \/ HelpFlagPresent
  \/ Len(parsedArgs.pos) = 0

\* the argv without a leading 'help'
WithoutHelp == IF Len(argv) > 0 /\ argv[1] = Word("help") THEN Tail(argv) ELSE argv

\* C5: when no command resolves, argv starts with 'help', -h or --help is
\* present or there is no positional word, help is displayed and no action
\* is invoked; a leading 'help' does not change how the words resolve.
C5_HelpTriggers ==
  PastHelpTest
    => /\ HelpRequested
            => /\ actionCalls = 0
               /\ pc = "exited" => help # "none"
       /\ LET words == Minimist(WithoutHelp, NoHints).pos
              r == LoadCommandFromArgs(disk, words)
          IN /\ commands = r.commands
             /\ commandToExecute = FindCommand(r.commands, Join(words, " "))

\* loadCommandFromArgs has returned or ended the process
AfterLoad == pc \notin {"start", "load"}

\* the file with index i is a command file that full discovery loads
DiscoveredFile(i) ==
  /\ \E j \in DOMAIN Files[i].dir : Files[i].dir[j] = "commands"
  /\ Files[i].ext # ".spec.js"
  /\ disk[i] # "absent"

\* the descriptor execute selected, NoCommand when it selected none
NoCommand == [aliases |-> <<>>, name |-> "", command |-> "", options |-> <<>>]

Selected == IF commandToExecute = 0 THEN NoCommand ELSE commands[commandToExecute]

\* the descriptor an invocation with the given words selects on this disk
SelectedFor(words) ==
  LET r == LoadCommandFromArgs(disk, words)
      i == FindCommand(r.commands, Join(words, " "))
  IN IF r.fatal \/ i = 0 THEN NoCommand ELSE r.commands[i]

\* the words of each command's name
NameWords(command) ==
  CASE command.id = "version" -> <<"version">>
    [] command.id = "completion" -> <<"completion">>
    [] command.id = "spoSet" -> <<"spo", "set">>
    [] OTHER -> <<"spo", "tenant", "appcatalog", "add">>

\* the commands of the catalog on this disk
Catalog == {c \in Commands : \E i \in DOMAIN Files : DiscoveredFile(i) /\ disk[i] = c.id}

IsAliasOf(name, command) ==
  \E j \in DOMAIN command.alias : command.alias[j] = name

NoThrowingFile == \A i \in DOMAIN Files : DiscoveredFile(i) => disk[i] # "throws"

\* no command other than c is stored where the words point
PathFreeFor(words, c) ==
  ContentAt(disk, CommandFilePath(words)) \in {"absent", "notcmd", c.id}

TargetContent == ContentAt(disk, CommandFilePath(parsedArgs.pos))

HasCompletion(words) == \E i \in DOMAIN words : words[i] = "completion"

\* C7 as stated: when the conventional path of the words holds a valid
\* command, exactly that descriptor is registered and its name is the
\* joined words.
C7_SingleDescriptorNamedByWords ==
  (AfterLoad /\ Len(parsedArgs.pos) > 0 /\ IsCommand(TargetContent))
    => /\ Len(commands) = 1
       /\ commands[1].command = TargetContent
       /\ commands[1].name = Join(parsedArgs.pos, " ")

\* C7 amended: when the words do not include 'completion' and their
\* conventional path holds a valid command, exactly the descriptor of that
\* command is registered, under the name the command itself reports.
C7_SingleDescriptor ==
  (AfterLoad /\ Len(parsedArgs.pos) > 0 /\ ~HasCompletion(parsedArgs.pos)
     /\ IsCommand(TargetContent))
    => /\ Len(commands) = 1
       /\ commands[1].command = TargetContent
       /\ commands[1].name = CommandById(TargetContent).name
       /\ commands[1].aliases = CommandById(TargetContent).alias

C7_Witness ==
  /\ AfterLoad
  /\ parsedArgs.pos = <<"spo", "tenant", "appcatalog-add">>
  /\ Len(commands) = 1
  /\ commands[1].name = "spo tenant appcatalog add"

\* the files whose command full discovery registers
CatalogFiles == {i \in DOMAIN Files : DiscoveredFile(i) /\ IsCommand(disk[i])}

\* C8: with no positional word, with the word 'completion', or with nothing
\* stored at the conventional path, the registry after loading holds one
\* descriptor for every valid command file that is under a commands
\* directory and is no spec file, and nothing else.
C8_FallbackLoadsCatalog ==
  (AfterLoad /\ ~LoadFatal
     /\ \/ Len(parsedArgs.pos) = 0
        \/ HasCompletion(parsedArgs.pos)
        \/ TargetContent = "absent")
    => /\ Len(commands) = Cardinality(CatalogFiles)
       /\ {commands[j].command : j \in DOMAIN commands} = {disk[i] : i \in CatalogFiles}
       /\ \A j \in DOMAIN commands :
            commands[j] = CommandInfo(CommandById(commands[j].command))

C8_Witness ==
  /\ AfterLoad
  /\ ~LoadFatal
  /\ parsedArgs.pos = <<"completion">>
  /\ TargetContent = "completion"
  /\ Len(commands) = 4

IsPrefix(a, b) == Len(a) <= Len(b) /\ a = SubSeq(b, 1, Len(a))

\* C9 as stated: loading is complete before any parsing of argv starts;
\* parsing precedes validation and validation precedes dispatch.
C9_LoadBeforeAnyParsing ==
  /\ \A i \in DOMAIN phases :
       phases[i] \in {"parse", "reparse"}
         => \E j \in 1..(i - 1) : phases[j] = "load"
  /\ \A i \in DOMAIN phases :
       phases[i] = "validate" => \E j \in 1..(i - 1) : phases[j] = "reparse"
  /\ \A i \in DOMAIN phases :
       phases[i] = "dispatch" => \E j \in 1..(i - 1) : phases[j] = "validate"

\* C9 amended: argv is parsed once without hints before loading; loading is
\* complete before the parse with the command's hints starts, that parse is
\* complete before validation and validation before dispatch; each phase
\* runs at most once.
C9_PhaseOrder ==
  IsPrefix(phases, <<"parse", "load", "reparse", "validate", "dispatch">>)

C9_Witness ==
  /\ phases = <<"parse", "load", "reparse", "validate", "dispatch">>
  /\ actionCalls = 1

\* full discovery runs for the positional words
FullDiscoveryRuns ==
  \/ Len(parsedArgs.pos) = 0
  \/ HasCompletion(parsedArgs.pos)
  \/ ~IsCommand(TargetContent)

\* C10: when a command file throws while full discovery loads it, the error
\* is reported, the process exits with a failure status, no action is
\* invoked and no help is printed.
C10_DiscoveryFailureFatal ==
  (AfterLoad /\ FullDiscoveryRuns
     /\ \E i \in DOMAIN Files : DiscoveredFile(i) /\ disk[i] = "throws")
    => /\ pc = "exited"
       /\ exitCode # 0
       /\ stderr # ""
       /\ actionCalls = 0
       /\ help = "none"

C10_Witness ==
  /\ pc = "exited"
  /\ disk[2] = "throws"
  /\ parsedArgs.pos = <<"spo", "add">>
  /\ stderr = "load failure"
  /\ exitCode = 1

\* the targeted load of lines 227-238 runs and fails: a file is stored at
\* the conventional path of the words and it throws or exports no command
TargetedLoadFails ==
  /\ Len(parsedArgs.pos) > 0
  /\ ~HasCompletion(parsedArgs.pos)
  /\ TargetContent \in {"throws", "notcmd"}

\* no command file other than the targeted one throws
OnlyTargetThrows ==
  \A i \in DOMAIN Files :
    (DiscoveredFile(i) /\ Files[i] # CommandFilePath(parsedArgs.pos))
      => disk[i] # "throws"

\* the registry holds one descriptor for every command of the catalog
RegistryIsCatalog ==
  /\ Len(commands) = Cardinality(CatalogFiles)
  /\ {commands[j].command : j \in DOMAIN commands} = {disk[i] : i \in CatalogFiles}

\* C11: when the targeted load fails (the file at the computed path throws
\* while loading, or exports no valid command), no error is reported: the
\* process does not end in the loader and the registry equals the catalog.
C11_TargetFailureRecovers ==
  (AfterLoad /\ TargetedLoadFails /\ OnlyTargetThrows)
    => /\ ~LoadFatal
       /\ stderr = ""
       /\ RegistryIsCatalog

RECURSIVE IsSubsequence(_, _)
\* a is b with some elements left out
IsSubsequence(a, b) ==
  IF Len(a) = 0 THEN TRUE
  ELSE IF Len(b) = 0 THEN FALSE
  ELSE IF Head(a) = Head(b) THEN IsSubsequence(Tail(a), Tail(b))
  ELSE IsSubsequence(a, Tail(b))

\* the parse with the command's hints of lines 73-85 has been made
Reparsed == \E i \in DOMAIN phases : phases[i] = "reparse"

OtherSpelling(token, options) ==
  LET both == {i \in DOMAIN options :
                 options[i].short # "" /\ options[i].long # ""}
  IN IF token.t = "short" /\ \E i \in both : options[i].short = token.k
     THEN Long(options[CHOOSE i \in both : options[i].short = token.k].long)
     ELSE IF token.t = "long" /\ \E i \in both : options[i].long = token.k
     THEN Short(options[CHOOSE i \in both : options[i].long = token.k].short)
     ELSE token

\* the arguments with every flag in its other spelling
Respelled(args, options) ==
  [i \in DOMAIN args |-> OtherSpelling(args[i], options)]

\* C13: for every option of the resolved command that declares a short and
\* a long form, the parsed options hold the same value under the short
\* form, the long form and the option's name; the invocation with the other
\* spelling of its flags parses to the same options, so the required-option
\* check and the action see the same invocation.
C13_EitherSpelling ==
  (Reparsed /\ Resolved)
    => LET options == DeclaredOptions
           other == GetCommandOptionsFromArgs(Respelled(rawArgs, options), Selected)
       IN /\ \A i \in DOMAIN options :
               (options[i].short # "" /\ options[i].long # "")
                 => /\ optionsFromArgs.opts[options[i].short]
                         = optionsFromArgs.opts[options[i].long]
                    /\ optionsFromArgs.opts[options[i].name]
                         = optionsFromArgs.opts[options[i].long]
          /\ other = optionsFromArgs
          /\ FirstMissingRequired(other, options)
               = FirstMissingRequired(optionsFromArgs, options)
          /\ actionCalls > 0 => actionArgs = other

\* the short spelling -u v reaches the action as url = 'v'
C13_Witness ==
  /\ Resolved
  /\ actionCalls = 1
  /\ \E i \in DOMAIN rawArgs : rawArgs[i] = Short("u")
  /\ \A i \in DOMAIN rawArgs : rawArgs[i] # Long("url")
  /\ actionArgs.opts["url"] = Str("v")
  /\ actionArgs.opts["u"] = Str("v")

(***************************************************************************)
(* Cli.logOutput: the values a command logs.  An object is the sequence of *)
(* its own properties [k, v] in insertion order.                           *)
(***************************************************************************)
Null == [ty |-> "null", s |-> "", n |-> 0, items |-> <<>>]
DateValue == [ty |-> "date", s |-> "Thu Jan 01 1970", n |-> 0, items |-> <<>>]
Prop(k, v) == [k |-> k, v |-> v]
Obj(props) == [ty |-> "object", s |-> "", n |-> 0, items |-> props]

\* typeof
TypeOf(v) ==
  IF v.ty \in {"undefined", "boolean", "string", "number"} THEN v.ty
  ELSE "object"

\* Array.isArray
IsArray(v) == v.ty = "array"

\* the UTF-16 code units of the strings that are property names or logged
\* strings in the model
CharCodes ==
  ("A" :> <<65>> @@ "BB" :> <<66, 66>> @@ "a" :> <<97>> @@ "b" :> <<98>>
   @@ "n" :> <<110>> @@ "items" :> <<105, 116, 101, 109, 115>>
   @@ "0" :> <<48>> @@ "1" :> <<49>> @@ "2" :> <<50>>
   @@ "length" :> <<108, 101, 110, 103, 116, 104>>
   @@ "x" :> <<120>> @@ "y" :> <<121>>)

\* String.prototype.length
StringLength(str) == Len(CharCodes[str])

RECURSIVE CodesBefore(_, _)
\* the comparison Array.prototype.sort makes without a compare function:
\* by UTF-16 code units, a proper prefix first
CodesBefore(a, b) ==
  IF Len(b) = 0 THEN FALSE
  ELSE IF Len(a) = 0 THEN TRUE
  ELSE IF Head(a) # Head(b) THEN Head(a) < Head(b)
  ELSE CodesBefore(Tail(a), Tail(b))

StringBefore(a, b) == CodesBefore(CharCodes[a], CharCodes[b])

RECURSIVE Spaces(_)
\* new Array(n + 1).join(' ')
Spaces(n) == IF n <= 0 THEN "" ELSE " " \o Spaces(n - 1)

RECURSIVE ToJsString(_)
RECURSIVE ArrayJoin(_, _)
\* String(v), the conversion a template literal and Array.prototype.join
\* apply to a value
ToJsString(v) ==
  CASE v.ty = "undefined" -> "undefined"
    [] v.ty = "null" -> "null"
    [] v.ty = "boolean" -> IF v.n = 1 THEN "true" ELSE "false"
    [] v.ty = "string" -> v.s
    [] v.ty = "number" -> ToString(v.n)
    [] v.ty = "date" -> v.s
    [] v.ty = "array" -> ArrayJoin(v.items, ",")
    [] OTHER -> "[object Object]"

\* Array.prototype.join: undefined and null elements give the empty string
ArrayJoin(items, sep) ==
  Join([i \in DOMAIN items |->
          IF items[i].ty \in {"undefined", "null"} THEN ""
          ELSE ToJsString(items[i])], sep)

RECURSIVE JsonStringify(_, _, _)
\* JSON.stringify(v, null, gap) at the indentation cur; gap is "" or "  ".
\* An undefined array element is written as null, a property with an
\* undefined value is left out.
JsonStringify(v, gap, cur) ==
  LET inner == cur \o gap
      sep == IF gap = "" THEN "," ELSE ",\n" \o inner
      open(b) == IF gap = "" THEN b ELSE b \o "\n" \o inner
      close(b) == IF gap = "" THEN b ELSE "\n" \o cur \o b
      colon == IF gap = "" THEN ":" ELSE ": "
      props == SelectSeq(v.items, LAMBDA p : p.v.ty # "undefined")
  IN CASE v.ty \in {"undefined", "null"} -> "null"
       [] v.ty = "boolean" -> IF v.n = 1 THEN "true" ELSE "false"
       [] v.ty = "string" -> "\"" \o v.s \o "\""
       [] v.ty = "number" -> ToString(v.n)
       [] v.ty = "date" -> "\"1970-01-01T00:00:00.000Z\""
       [] v.ty = "array" ->
            IF Len(v.items) = 0 THEN "[]"
            ELSE open("[")
                   \o Join([i \in DOMAIN v.items |->
                              JsonStringify(v.items[i], gap, inner)], sep)
                   \o close("]")
       [] OTHER ->
            IF Len(props) = 0 THEN "{}"
            ELSE open("{")
                   \o Join([i \in DOMAIN props |->
                              "\"" \o props[i].k \o "\"" \o colon
                                \o JsonStringify(props[i].v, gap, inner)], sep)
                   \o close("}")

\* String.fromCharCode for the code units of the logged strings
FromCharCode == (120 :> "x" @@ 121 :> "y")

\* the value of a property with an undefined value, as jmespath returns it
NullIfUndefined(v) == IF v.ty = "undefined" THEN Null ELSE v

\* jmespath: the field of an object, null for anything that is no object
\* or has no such field
Field(data, k) ==
  IF data.ty = "object" /\ \E i \in DOMAIN data.items : data.items[i].k = k
  THEN NullIfUndefined(
         data.items[CHOOSE i \in DOMAIN data.items : data.items[i].k = k].v)
  ELSE Null

\* the query expressions of the model; <1> is the JSON literal 1, which the
\* expression language writes between backquotes
Queries == {"a", "items", "[0]", "items[?n==<1>]"}

\* jmespath.search(data, expression)
Search(data, expression) ==
  CASE expression = "a" -> Field(data, "a")
    [] expression = "items" -> Field(data, "items")
    [] expression = "[0]" ->
         IF IsArray(data) /\ Len(data.items) > 0
         THEN NullIfUndefined(data.items[1]) ELSE Null
    [] OTHER ->
         LET items == Field(data, "items")
         IN IF IsArray(items)
            THEN Arr(SelectSeq(items.items, LAMBDA e : Field(e, "n") = Num(1)))
            ELSE Null

\* Object.getOwnPropertyNames(v) with the values of the properties; the
\* call throws for null and undefined, which CanHaveProperties excludes
CanHaveProperties(v) == v.ty \notin {"null", "undefined"}

OwnProperties(v) ==
  CASE v.ty = "object" -> v.items
    [] v.ty = "array" ->
         [i \in 1..(Len(v.items) + 1) |->
            IF i <= Len(v.items) THEN Prop(ToString(i - 1), v.items[i])
            ELSE Prop("length", Num(Len(v.items)))]
    [] v.ty = "string" ->
         [i \in 1..(StringLength(v.s) + 1) |->
            IF i <= StringLength(v.s)
            THEN Prop(ToString(i - 1), Str(FromCharCode[CharCodes[v.s][i]]))
            ELSE Prop("length", Num(StringLength(v.s)))]
    [] OTHER -> <<>>

\* faulty variant of Sort: the names stay in the order of declaration
SortNot(names) == names

RECURSIVE Sort(_)
\* Array.prototype.sort of distinct strings
Sort(names) ==
  IF Len(names) = 0 THEN <<>>
  ELSE LET i == CHOOSE i \in DOMAIN names :
                  \A j \in DOMAIN names : j # i => StringBefore(names[i], names[j])
           rest == [j \in 1..(Len(names) - 1) |->
                      IF j < i THEN names[j] ELSE names[j + 1]]
       IN <<names[i]>> \o Sort(rest)

RECURSIVE Longest(_)
\* lines 356-361: the length of the longest property name
Longest(names) ==
  IF Len(names) = 0 THEN 0
  ELSE LET rest == Longest(Tail(names))
       IN IF StringLength(Head(names)) > rest
          THEN StringLength(Head(names)) ELSE rest

\* the value of the property p among the own properties props
PropertyValue(props, p) ==
  props[CHOOSE i \in DOMAIN props : props[i].k = p].v

\* what logOutput returns: form tells which return statement was taken
\* ("throws": none, an exception leaves the function), text is the string
\* returned, lines are the lines of a key: value block, columns and rows
\* are the table that was printed
Rendering(form, text) ==
  [form |-> form, text |-> text, lines |-> <<>>, columns |-> <<>>, rows |-> <<>>]

\* line 365: Array.isArray(obj[p]) || typeof obj[p] === 'object'
\*   ? JSON.stringify(obj[p]) : obj[p]
BlockValue(v) ==
  IF IsArray(v) \/ TypeOf(v) = "object" THEN JsonStringify(v, "", "")
  ELSE ToJsString(v)

\* lines 349-368: the key: value block of one object
RenderBlock(obj) ==
  IF ~CanHaveProperties(obj) THEN Rendering("throws", "")
  ELSE
    LET props == OwnProperties(obj)
        propertyNames == [i \in DOMAIN props |-> props[i].k]
        longestPropertyLength == Longest(propertyNames)
        sorted == Sort(propertyNames)
        output == [i \in DOMAIN sorted |->
                     sorted[i]
                       \o Spaces(longestPropertyLength - StringLength(sorted[i]))
                       \o ": " \o BlockValue(PropertyValue(props, sorted[i]))]
    IN [Rendering("block", Join(output, "\n") \o "\n") EXCEPT !.lines = output]

RECURSIVE AddColumns(_, _)
\* the columns of an easy-table: the names of the cells in the order in
\* which they are first set
AddColumns(columns, names) ==
  IF Len(names) = 0 THEN columns
  ELSE IF \E i \in DOMAIN columns : columns[i] = Head(names)
  THEN AddColumns(columns, Tail(names))
  ELSE AddColumns(Append(columns, Head(names)), Tail(names))

RECURSIVE TableFrom(_, _, _)
\* lines 372-381: logStatement.forEach; acc is the table built so far
TableFrom(elements, i, acc) ==
  IF i > Len(elements) THEN acc
  ELSE LET r == elements[i]
       IN IF TypeOf(r) # "object" THEN TableFrom(elements, i + 1, acc)
          ELSE IF ~CanHaveProperties(r) THEN Rendering("throws", "")
          ELSE LET props == OwnProperties(r)
               IN TableFrom(elements, i + 1,
                    [acc EXCEPT
                       !.columns = AddColumns(@, [j \in DOMAIN props |-> props[j].k]),
                       !.rows = Append(@, props)])

\* easy-table's default printer: '' for undefined, String(val) otherwise
TableCell(row, column) ==
  IF \E j \in DOMAIN row : row[j].k = column
  THEN LET v == PropertyValue(row, column)
       IN IF v.ty = "undefined" THEN "" ELSE ToJsString(v)
  ELSE ""

\* lines 370-383: the table of several elements; each row is printed as
\* one cell for every column
RenderTable(elements) ==
  LET t == TableFrom(elements, 1, Rendering("table", ""))
  IN IF t.form = "throws" THEN t
     ELSE [t EXCEPT !.rows =
             [i \in DOMAIN t.rows |->
                [c \in DOMAIN t.columns |-> TableCell(t.rows[i], t.columns[c])]]]

\* os.EOL
EOL == "\n"

\* faulty variant of ApplyQuery: the query is applied even when help is set
ApplyQueryDespiteHelp(logged, options) ==
  IF Truthy(options.query) THEN Search(logged, options.query.s) ELSE logged

\* lines 321-324: options.query && !options.help
ApplyQuery(logged, options) ==
  IF Truthy(options.query) /\ ~Truthy(options.help)
  THEN Search(logged, options.query.s)
  ELSE logged

\* lines 330-343: the value as an array and the type its form is chosen by.
\* A value that is no array is wrapped and the type is the one taken from
\* the logged value at line 315, before the query was applied.
Elements(value) == IF IsArray(value) THEN value.items ELSE <<value>>

ArrayType(value, logStatementType) ==
  IF ~IsArray(value) THEN logStatementType
  ELSE IF \E i \in DOMAIN value.items : TypeOf(value.items[i]) # "undefined"
  THEN TypeOf(value.items[CHOOSE i \in DOMAIN value.items :
                 /\ TypeOf(value.items[i]) # "undefined"
                 /\ \A j \in 1..(i - 1) : TypeOf(value.items[j]) = "undefined"])
  ELSE ""

\* Cli.logOutput
LogOutput(logged, options) ==
  IF logged.ty = "date" THEN Rendering("date", logged.s)
  ELSE IF TypeOf(logged) = "undefined" THEN Rendering("undefined", "")
  ELSE
    LET value == ApplyQuery(logged, options)
        elements == Elements(value)
    IN IF options.output = Str("json")
       THEN Rendering("json", JsonStringify(value, "  ", ""))
       ELSE IF ArrayType(value, TypeOf(logged)) # "object"
       THEN Rendering("join", ArrayJoin(elements, EOL))
       ELSE IF Len(elements) = 1 THEN RenderBlock(elements[1])
       ELSE RenderTable(elements)

(***************************************************************************)
(* One call of commandInstance.log (lines 148-151) with a value and        *)
(* options drawn from the sets below.                                      *)
(***************************************************************************)
\* largest number of elements of a logged array
MaxElems == 2

\* the elements of the logged arrays
LoggedElements ==
  {Undef, Null, Str("x"), Num(1),
   Obj(<<Prop("a", Num(1)), Prop("b", Num(2))>>),
   Obj(<<Prop("a", Num(3))>>)}

\* the logged values that are no arrays of these elements
LoggedOthers ==
  {Undef, DateValue, Str("x"), Num(1),
   Obj(<<>>),
   Obj(<<Prop("BB", Num(2)), Prop("A", Num(1))>>),
   Obj(<<Prop("a", Str("x"))>>),
   Obj(<<Prop("b", Obj(<<Prop("a", Num(1))>>)),
         Prop("a", Arr(<<Num(1), Str("x")>>))>>),
   Obj(<<Prop("items", Arr(<<Obj(<<Prop("n", Num(1))>>),
                             Obj(<<Prop("n", Num(2))>>)>>))>>)}

LoggedValues ==
  LoggedOthers \cup {Arr(xs) : xs \in SeqsUpTo(LoggedElements, MaxElems)}

LogOptionSets ==
  [query : {Undef} \cup {Str(q) : q \in Queries},
   help : {Undef, Bool(TRUE)},
   output : {Undef, Str("json"), Str("text")}]

InitRender ==
  /\ argv = <<>>
  /\ disk = StandardDisk
  /\ InitState
  /\ logStatement \in LoggedValues
  /\ logOptions \in LogOptionSets
  /\ rendered = NotRendered
  /\ printed = <<>>
  /\ InitNoPoll
  /\ InitNoRun
  /\ InitNoOption

\* lines 148-151: const output = Cli.logOutput(message, options);
\* console.log(output).  When logOutput throws, console.log is not reached.
Log ==
  /\ rendered = NotRendered
  /\ rendered' = LogOutput(logStatement, logOptions)
  /\ printed' = IF rendered'.form = "throws" THEN printed
                ELSE Append(printed, rendered')
  /\ UNCHANGED <<logStatement, logOptions, cliVars, pollVars, runVars,
                 optionVars>>

NextRender == Log

SpecRender == InitRender /\ [][NextRender]_vars

\* commandInstance.log has returned or thrown
Logged == rendered # NotRendered

\* the query is set and help is not requested
QueryApplies == Truthy(logOptions.query) /\ ~Truthy(logOptions.help)

\* the logged value after the query, the logged value itself when no query
\* applies
FilteredValue ==
  IF QueryApplies THEN Search(logStatement, logOptions.query.s) ELSE logStatement

\* the logged value is rendered: it is neither undefined nor a Date, which
\* are returned before the query is looked at
Renderable == logStatement.ty \notin {"undefined", "date"}

\* C14: when the query is set and help is not requested the output, JSON or
\* text, is computed from the query-filtered value only: it is what logging
\* the filtered value without a query gives; when the query is unset or help
\* is set it is what the unfiltered value gives.
C14_QueryFilterOnly ==
  (Logged /\ Renderable)
    => rendered = LogOutput(FilteredValue, [logOptions EXCEPT !.query = Undef])

\* the filtered value as an array
FilteredElements == Elements(FilteredValue)

\* the first element of the filtered value that is not undefined; Undef
\* when there is none
FirstDefined ==
  IF \E i \in DOMAIN FilteredElements : FilteredElements[i].ty # "undefined"
  THEN FilteredElements[CHOOSE i \in DOMAIN FilteredElements :
         /\ FilteredElements[i].ty # "undefined"
         /\ \A j \in 1..(i - 1) : FilteredElements[j].ty = "undefined"]
  ELSE Undef

\* the value is rendered as text
TextOutput == logOptions.output # Str("json")

\* C15: for output other than json the form is chosen by the first defined
\* element of the filtered value taken as an array: elements joined with
\* the line separator when it is no object, a key: value block for one
\* object, a table for several.  (The case of a first element null, whose
\* typeof is 'object', is left aside here.)
C15_TextForm ==
  (Logged /\ Renderable /\ TextOutput /\ FirstDefined # Null)
    => IF TypeOf(FirstDefined) # "object"
       THEN /\ rendered.form = "join"
            /\ rendered.text = ArrayJoin(FilteredElements, EOL)
       ELSE IF Len(FilteredElements) = 1 THEN rendered.form = "block"
       ELSE rendered.form = "table"

\* C16: logging undefined: logOutput returns undefined whatever the options
\* are, and nothing is printed for the call.
C16_UndefinedPrintsNothing ==
  (Logged /\ logStatement = Undef)
    => /\ rendered = Rendering("undefined", "")
       /\ printed = <<>>

\* the property names of an object
Names(obj) == {obj.items[i].k : i \in DOMAIN obj.items}

\* the place of a name among the names of an object in the order of their
\* UTF-16 code units
Rank(name, obj) == 1 + Cardinality({k \in Names(obj) : StringBefore(k, name)})

\* the greatest length of a name of an object
Width(obj) ==
  IF Names(obj) = {} THEN 0
  ELSE StringLength(CHOOSE k \in Names(obj) :
         \A l \in Names(obj) : StringLength(l) <= StringLength(k))

\* a single object is rendered as text
SingleObject ==
  /\ Renderable
  /\ TextOutput
  /\ Len(FilteredElements) = 1
  /\ FilteredElements[1].ty = "object"

\* C17: a single object with n own properties is rendered as n lines, one
\* for each property, in the order of the keys; a line is the key, padded
\* with spaces to the width of the longest key, ': ' and the value, which is
\* JSON-stringified when it is an object or an array; each line ends with
\* a line feed.
C17_SingleObjectBlock ==
  (Logged /\ SingleObject)
    => LET obj == FilteredElements[1]
       IN /\ rendered.form = "block"
          /\ Len(rendered.lines) = Len(obj.items)
          /\ \A i \in DOMAIN obj.items :
               LET p == obj.items[i]
               IN rendered.lines[Rank(p.k, obj)] =
                    p.k \o Spaces(Width(obj) - StringLength(p.k)) \o ": "
                      \o (IF p.v.ty \in {"object", "array", "null", "date"}
                          THEN JsonStringify(p.v, "", "")
                          ELSE ToJsString(p.v))
          /\ rendered.text = Join(rendered.lines, "\n") \o "\n"

\* {BB: 2, A: 1} is rendered as the lines 'A : 1' and 'BB: 2'
C17_Witness ==
  /\ Logged
  /\ logStatement = Obj(<<Prop("BB", Num(2)), Prop("A", Num(1))>>)
  /\ rendered.form = "block"
  /\ rendered.lines = <<"A : 1", "BB: 2">>
  /\ rendered.text = "A : 1\nBB: 2\n"

\* the elements of the filtered value that are objects, in their order
ObjectElements ==
  SelectSeq(FilteredElements, LAMBDA e : e.ty = "object")

\* several elements are rendered as text and the first defined one is an
\* object
SeveralObjects ==
  /\ Renderable
  /\ TextOutput
  /\ Len(FilteredElements) >= 2
  /\ FirstDefined.ty = "object"

\* C18: an array of two or more elements whose first defined element is an
\* object is rendered as a table with one column for every property name
\* found in its objects and one row for every object; a property that a row
\* lacks is an empty cell; every element that is no object (a string, a
\* number, null, undefined) is skipped without an error.
C18_Table ==
  (Logged /\ SeveralObjects)
    => /\ rendered.form = "table"
       /\ {rendered.columns[c] : c \in DOMAIN rendered.columns}
            = UNION {Names(ObjectElements[i]) : i \in DOMAIN ObjectElements}
       /\ \A c, d \in DOMAIN rendered.columns :
            rendered.columns[c] = rendered.columns[d] => c = d
       /\ Len(rendered.rows) = Len(ObjectElements)
       /\ \A i \in DOMAIN rendered.rows, c \in DOMAIN rendered.columns :
            rendered.columns[c] \notin Names(ObjectElements[i])
              => rendered.rows[i][c] = ""

(***************************************************************************)
(* The polling of a copy job: SpoFileMoveCommand.waitForJobResult and      *)
(* SpoFolderMoveCommand.getCopyJobProgress.  The two differ in the message *)
(* of their timeout error only.                                            *)
(***************************************************************************)
\* opts.progressMaxPollAttempts (1000 in the commands)
progressMaxPollAttempts == 3
\* opts.progressRetryAttempts (5 in the commands)
progressRetryAttempts == 2
\* largest number of entries of resp.Logs
MaxLogs == 2

\* an entry of resp.Logs: a string that JSON.parse accepts, giving an object
\* with Event and Message, or one that makes it throw
LogEntry(event, message) == [parses |-> TRUE, Event |-> event, Message |-> message]
Malformed == [parses |-> FALSE, Event |-> "", Message |-> ""]

LogEntries ==
  {Malformed, LogEntry("JobProgress", ""), LogEntry("JobError", "boom"),
   LogEntry("JobFatalError", "fatal")}

\* the responses a progress request resolves with; Logs can be missing
Responses ==
  [ok : {TRUE}, JobState : {Undef, Num(0), Num(4)}, hasLogs : {TRUE},
   Logs : SeqsUpTo(LogEntries, MaxLogs), error : {""}]
    \cup [ok : {TRUE}, JobState : {Undef, Num(0), Num(4)}, hasLogs : {FALSE},
          Logs : {<<>>}, error : {""}]

\* the errors a progress request rejects with
RequestErrors == {"ECONNRESET", "Service Unavailable"}

Rejection(e) == [ok |-> FALSE, JobState |-> Undef, hasLogs |-> FALSE,
                 Logs |-> <<>>, error |-> e]

\* new Error('waitForJobResult timed out') / 'getCopyJobProgress timed out'
TimeoutError(command) ==
  IF command = "file move" THEN "waitForJobResult timed out"
  ELSE "getCopyJobProgress timed out"

RECURSIVE ScanLogs(_)
\* for (const item of resp.Logs): what the loop ends with: "throws" when
\* JSON.parse throws, "reject" with the message of the first JobError or
\* JobFatalError entry, "none" when it runs to its end
ScanLogs(logs) ==
  IF Len(logs) = 0 THEN [kind |-> "none", message |-> ""]
  ELSE IF ~Head(logs).parses THEN [kind |-> "throws", message |-> ""]
  ELSE IF Head(logs).Event \in {"JobError", "JobFatalError"}
  THEN [kind |-> "reject", message |-> Head(logs).Message]
  ELSE ScanLogs(Tail(logs))

\* resolve() and reject(value): a promise that is settled stays as it is
Resolve(p) == IF p.state = "pending" THEN [state |-> "resolved", value |-> ""] ELSE p
Reject(p, value) ==
  IF p.state = "pending" THEN [state |-> "rejected", value |-> value] ELSE p

\* faulty variant of OnResponse: reject(log.Message) without the return, so
\* that the handler goes on to the test of JobState and pollCount
OnResponseNoReturn(resp, count, command) ==
  IF ~resp.hasLogs THEN [kind |-> "throws", message |-> ""]
  ELSE LET scan == ScanLogs(resp.Logs)
       IN IF scan.kind = "throws" THEN scan
          ELSE IF scan.kind = "reject"
          THEN IF resp.JobState # Num(0) /\ count < progressMaxPollAttempts
               THEN [kind |-> "reject+timer", message |-> scan.message]
               ELSE scan
          ELSE IF resp.JobState = Num(0) THEN [kind |-> "resolve", message |-> ""]
          ELSE IF count < progressMaxPollAttempts
          THEN [kind |-> "timer", message |-> ""]
          ELSE [kind |-> "reject", message |-> TimeoutError(command)]

\* what the handler of a response does: "throws", "reject" (with message),
\* "resolve", or "timer" (setTimeout(checkCondition, ...))
OnResponse(resp, count, command) ==
  IF ~resp.hasLogs THEN [kind |-> "throws", message |-> ""]
  ELSE LET scan == ScanLogs(resp.Logs)
       IN IF scan.kind # "none" THEN scan
          ELSE IF resp.JobState = Num(0) THEN [kind |-> "resolve", message |-> ""]
          ELSE IF count < progressMaxPollAttempts
          THEN [kind |-> "timer", message |-> ""]
          ELSE [kind |-> "reject", message |-> TimeoutError(command)]

\* faulty variant of OnRejection: gives up one rejection too early
OnRejectionEarly(error, retries) ==
  IF retries < progressRetryAttempts THEN [kind |-> "timer", message |-> ""]
  ELSE [kind |-> "reject", message |-> error]

\* faulty variant of OnRejection: giving up rejects with a timeout error
OnRejectionTimeout(error, retries) ==
  IF retries <= progressRetryAttempts THEN [kind |-> "timer", message |-> ""]
  ELSE [kind |-> "reject", message |-> "waitForJobResult timed out"]

\* what the handler of a rejected request does, given the new count of
\* consecutive rejections
OnRejection(error, retries) ==
  IF retries <= progressRetryAttempts THEN [kind |-> "timer", message |-> ""]
  ELSE [kind |-> "reject", message |-> error]

InitPoll ==
  /\ argv = <<>>
  /\ disk = StandardDisk
  /\ InitState
  /\ InitNoLog
  /\ InitNoRun
  /\ InitNoOption
  /\ pollCommand \in {"file move", "folder move"}
  /\ pollPc = "start"
  /\ pollCount = 0
  /\ retryAttemptsCount = 0
  /\ response = NoResponse
  /\ promise = Pending
  /\ requestsPending = 0
  /\ timersScheduled = 0
  /\ settleCalls = <<>>

\* checkCondition up to the request: pollCount++; request.post(...)
CheckCondition ==
  /\ pollCount' = pollCount + 1
  /\ requestsPending' = requestsPending + 1
  /\ pollPc' = "request"
  /\ UNCHANGED <<pollCommand, retryAttemptsCount, response, promise,
                 settleCalls>>
  /\ UNCHANGED <<cliVars, renderVars, runVars, optionVars>>

\* new Promise(checkCondition)
StartPolling ==
  /\ pollPc = "start"
  /\ UNCHANGED timersScheduled
  /\ CheckCondition

\* the timer set by setTimeout(checkCondition, ...) fires
TimerFires ==
  /\ timersScheduled > 0
  /\ timersScheduled' = timersScheduled - 1
  /\ CheckCondition

\* the state after the handler of an answered request ended with the given
\* outcome ("reject+timer": reject was called and a timer was set as well)
Outcome(out) ==
  /\ requestsPending' = requestsPending - 1
  /\ timersScheduled' =
       IF out.kind \in {"timer", "reject+timer"} THEN timersScheduled + 1
       ELSE timersScheduled
  /\ settleCalls' =
       CASE out.kind = "resolve" -> Append(settleCalls, "resolve")
         [] out.kind \in {"reject", "reject+timer"} ->
              Append(settleCalls, "reject")
         [] OTHER -> settleCalls
  /\ pollPc' = CASE out.kind \in {"timer", "reject+timer"} -> "timer"
                 [] out.kind = "throws" -> "threw"
                 [] OTHER -> "settled"
  /\ promise' = CASE out.kind = "resolve" -> Resolve(promise)
                  [] out.kind \in {"reject", "reject+timer"} ->
                       Reject(promise, out.message)
                  [] OTHER -> promise

\* the progress request resolves: the first handler of .then
RequestResolves ==
  /\ requestsPending > 0
  /\ \E resp \in Responses :
       /\ response' = resp
       /\ retryAttemptsCount' = 0
       /\ Outcome(OnResponse(resp, pollCount, pollCommand))
  /\ UNCHANGED <<pollCommand, pollCount>>
  /\ UNCHANGED <<cliVars, renderVars, runVars, optionVars>>

\* the progress request rejects: the second handler of .then
RequestRejects ==
  /\ requestsPending > 0
  /\ \E e \in RequestErrors :
       /\ response' = Rejection(e)
       /\ retryAttemptsCount' = retryAttemptsCount + 1
       /\ Outcome(OnRejection(e, retryAttemptsCount + 1))
  /\ UNCHANGED <<pollCommand, pollCount>>
  /\ UNCHANGED <<cliVars, renderVars, runVars, optionVars>>

NextPoll ==
  \/ StartPolling
  \/ TimerFires
  \/ RequestResolves
  \/ RequestRejects

\* every progress request is eventually answered and every timer fires
SpecPoll == InitPoll /\ [][NextPoll]_vars /\ WF_vars(NextPoll)

\* C19: when every progress request is answered and every timer fires, the
\* promise of waitForJobResult / getCopyJobProgress is eventually settled,
\* whatever the responses are, those without Logs or with entries that are
\* no JSON included.
C19_PollingSettles == <>(promise.state # "pending")

\* the loop stopped because more than progressRetryAttempts requests in a
\* row were rejected
BudgetExceeded ==
  /\ pollPc = "settled"
  /\ ~response.ok
  /\ retryAttemptsCount > progressRetryAttempts

\* the loop stopped because the job was not done at the last poll allowed
PollCountReached ==
  /\ pollPc = "settled"
  /\ response.ok
  /\ response.hasLogs
  /\ ScanLogs(response.Logs).kind = "none"
  /\ response.JobState # Num(0)
  /\ pollCount >= progressMaxPollAttempts

TimeoutErrors == {"waitForJobResult timed out", "getCopyJobProgress timed out"}

\* C20 as stated: whenever the loop stops because the budget of consecutive
\* failures is exceeded or the maximum poll count is reached, the promise is
\* rejected with a timeout error.
C20_GiveUpIsTimeout ==
  (BudgetExceeded \/ PollCountReached)
    => /\ promise.state = "rejected"
       /\ promise.value \in TimeoutErrors

\* C20 amended: when the maximum poll count is reached the promise is
\* rejected with the timeout error of the command; when the budget of
\* consecutive failures is exceeded it is rejected with the error of the
\* last rejected request.
C20_GiveUpError ==
  /\ PollCountReached
       => /\ promise.state = "rejected"
          /\ promise.value = TimeoutError(pollCommand)
  /\ BudgetExceeded
       => /\ promise.state = "rejected"
          /\ promise.value = response.error
          /\ retryAttemptsCount = progressRetryAttempts + 1

\* the third rejection in a row ends the loop with the request's error
C20_Witness ==
  /\ BudgetExceeded
  /\ pollCount = progressRetryAttempts + 1
  /\ promise = [state |-> "rejected", value |-> "ECONNRESET"]

\* the messages of the entries of a response's Logs that report a terminal
\* job error
ErrorMessages(resp) ==
  {resp.Logs[i].Message : i \in {j \in DOMAIN resp.Logs :
      /\ resp.Logs[j].parses
      /\ resp.Logs[j].Event \in {"JobError", "JobFatalError"}}}

\* the last answered progress request resolved with a response that has a
\* JobError or JobFatalError entry in its Logs
TerminalJobError ==
  /\ response.ok
  /\ response.hasLogs
  /\ ErrorMessages(response) # {}

\* C21: once a progress response contains a log entry with Event JobError or
\* JobFatalError, the polling promise is rejected with that entry's Message,
\* nothing further is scheduled (no timer, no request) and the promise is
\* not resolved, whatever the JobState of the response.
C21_TerminalErrorRejects ==
  TerminalJobError
    => /\ promise.state = "rejected"
       /\ promise.value \in ErrorMessages(response)
       /\ pollPc = "settled"

\* the last answered progress request was rejected
RejectedLast == response # NoResponse /\ ~response.ok

\* the loop goes on: a timer is set, or it fired and the next request is out
Retried == pollPc \in {"timer", "request"} /\ promise = Pending

\* the loop gave up, rejecting with the error of the last request
GaveUpWithRequestError ==
  /\ pollPc = "settled"
  /\ promise = [state |-> "rejected", value |-> response.error]

GetProperty(obj, k) ==
  IF \E i \in DOMAIN obj.items : obj.items[i].k = k
  THEN PropertyValue(obj.items, k)
  ELSE Undef

\* cmd.log(value)
CmdLog(logged, value) == Append(logged, value)

\* if (this.verbose) { cmd.log(message); }
LogIfVerbose(logged, options, message) ==
  IF options.verbose THEN CmdLog(logged, Str(message)) ELSE logged

\* chalk.green: the text between the colour codes (the escape character
\* before each "[" is left out)
ChalkGreen(text) == "[32m" \o text \o "[39m"

\* the errors a remote call rejects with
RunErrors == {"An error has occurred", "Invalid request"}

\* Command.handleRejectedODataJsonPromise for an error that is a string:
\* cb(new CommandError(err))
HandleRejectedODataJsonPromise(err) == CommandError(err, Undef)

\* an entry of the status response
Service(id, name, status) ==
  Obj(<<Prop("Id", Str(id)), Prop("StatusDisplayName", Str(status)),
        Prop("WorkloadDisplayName", Str(name))>>)

Services ==
  {Service("Forms", "Microsoft Forms", "Normal service"),
   Service("PowerBI", "Power BI", "Service degradation")}

\* the responses of ServiceComms/CurrentStatus
StatusResponses ==
  {Obj(<<Prop("value", Arr(v))>>) : v \in SeqsUpTo(Services, MaxElems)}

\* encodeURIComponent, for the workloads of the model
EncodeURIComponent == ("Forms" :> "Forms" @@ "Power BI" :> "Power%20BI")

\* _spoUrl.replace('https://', '')
TenantIdentifier ==
  ("https://contoso.sharepoint.com" :> "contoso.sharepoint.com")

StatusEndpoint(options) ==
  IF options.workload # Undef
  THEN "ServiceComms/CurrentStatus?$filter=Workload eq '"
         \o EncodeURIComponent[options.workload.s] \o "'"
  ELSE "ServiceComms/CurrentStatus"

\* a call of a remote operation
Call(op, target) == [op |-> op, target |-> target]

StatusListOptions ==
  [output : {Undef, Str("json"), Str("text")},
   workload : {Undef, Str("Forms"), Str("Power BI")},
   verbose : BOOLEAN]

\* faulty variant of StatusListResult: the raw response whatever the output
StatusListResultRaw(res, options) == res

\* the value the action logs for a response
StatusListResult(res, options) ==
  IF options.output = Str("json") THEN res
  ELSE LET value == GetProperty(res, "value")
       IN Arr([i \in DOMAIN value.items |->
                 Obj(<<Prop("Name",
                           GetProperty(value.items[i], "WorkloadDisplayName")),
                       Prop("Status",
                           GetProperty(value.items[i], "StatusDisplayName"))>>)])

\* the action calls cb and is over
Complete(err) ==
  /\ runCallbacks' = Append(runCallbacks, err)
  /\ runPc' = "done"

\* commandAction up to the call of getSpoUrl
StatusListAction ==
  /\ runCommand = "tenant status list"
  /\ runPc = "start"
  /\ runLogged' = LogIfVerbose(runLogged, runOptions,
       "Getting the health status of the different services in Microsoft 365.")
  /\ runCalls' = Append(runCalls, Call("getSpoUrl", ""))
  /\ runPc' = "getSpoUrl"
  /\ UNCHANGED <<runCommand, runOptions, runResults, runCallbacks>>
  /\ UNCHANGED <<cliVars, renderVars, pollVars, optionVars>>

\* getSpoUrl resolves: the status request is made
StatusListRequest ==
  /\ runCommand = "tenant status list"
  /\ runPc = "getSpoUrl"
  /\ \E spoUrl \in DOMAIN TenantIdentifier :
       /\ runResults' = Append(runResults, CallResolved(Str(spoUrl)))
       /\ runCalls' = Append(runCalls,
            Call("request.get",
                 "https://manage.office.com/api/v1.0/"
                   \o TenantIdentifier[spoUrl] \o "/"
                   \o StatusEndpoint(runOptions)))
  /\ runPc' = "request.get"
  /\ UNCHANGED <<runCommand, runOptions, runLogged, runCallbacks>>
  /\ UNCHANGED <<cliVars, renderVars, pollVars, optionVars>>

\* the status request resolves: the first handler of the last .then
StatusListResolves ==
  /\ runCommand = "tenant status list"
  /\ runPc = "request.get"
  /\ \E res \in StatusResponses :
       /\ runResults' = Append(runResults, CallResolved(res))
       /\ runLogged' =
            LET logged == CmdLog(runLogged, StatusListResult(res, runOptions))
            IN LogIfVerbose(logged, runOptions, ChalkGreen("DONE"))
  /\ Complete(NoError)
  /\ UNCHANGED <<runCommand, runOptions, runCalls>>
  /\ UNCHANGED <<cliVars, renderVars, pollVars, optionVars>>

\* getSpoUrl or the status request rejects: the second handler of the last
\* .then
StatusListRejects ==
  /\ runCommand = "tenant status list"
  /\ runPc \in {"getSpoUrl", "request.get"}
  /\ \E err \in RunErrors :
       /\ runResults' = Append(runResults, CallRejected(err))
       /\ Complete(HandleRejectedODataJsonPromise(err))
  /\ UNCHANGED <<runCommand, runOptions, runCalls, runLogged>>
  /\ UNCHANGED <<cliVars, renderVars, pollVars, optionVars>>

(***************************************************************************)
(* spo file move: commandAction and recycleFile                            *)
(***************************************************************************)

\* the errors a request of spo file move rejects with
FileMoveErrors ==
  {Obj(<<Prop("statusCode", Num(404)), Prop("message", Str("Not Found"))>>),
   Obj(<<Prop("statusCode", Num(500)),
         Prop("message", Str("Internal Server Error"))>>)}

\* Command.handleRejectedODataJsonPromise for an error that is an object
\* with a message
HandleRejectedODataJsonError(err) ==
  CommandError(GetProperty(err, "message").s, Undef)

FileMoveOptions ==
  [deleteIfAlreadyExists : {Undef, Bool(FALSE), Bool(TRUE)},
   verbose : BOOLEAN, debug : BOOLEAN]

\* a call is answered
Answered(result) == runResults' = Append(runResults, result)

\* the second .then of commandAction: the request that creates the copy job
CreateCopyJobs ==
  /\ runCalls' = Append(runCalls, Call("request.post", "/_api/site/CreateCopyJobs"))
  /\ runPc' = "createCopyJobs"

\* faulty variant of RecycleWanted: the target file is recycled always
RecycleWantedAlways(options) == TRUE

\* if (args.options.deleteIfAlreadyExists)
RecycleWanted(options) == Truthy(options.deleteIfAlreadyExists)

\* commandAction up to the call of fileExists
FileMoveAction ==
  /\ runCommand = "spo file move"
  /\ runPc = "start"
  /\ runCalls' = Append(runCalls,
       Call("request.get", "/_api/web/GetFileByServerRelativeUrl"))
  /\ runPc' = "fileExists"
  /\ UNCHANGED <<runCommand, runOptions, runResults, runLogged, runCallbacks>>
  /\ UNCHANGED <<cliVars, renderVars, pollVars, optionVars>>

\* the source file exists: the first .then, recycleFile up to
\* getRequestDigest when deleteIfAlreadyExists is set
FileExistsResolves ==
  /\ runCommand = "spo file move"
  /\ runPc = "fileExists"
  /\ Answered(CallResolved(Undef))
  /\ IF RecycleWanted(runOptions)
     THEN /\ runCalls' = Append(runCalls, Call("getRequestDigest", ""))
          /\ runPc' = "getRequestDigest"
     ELSE CreateCopyJobs
  /\ UNCHANGED <<runCommand, runOptions, runLogged, runCallbacks>>
  /\ UNCHANGED <<cliVars, renderVars, pollVars, optionVars>>

\* recycleFile: getRequestDigest resolves, the recycle request is made
RequestDigestResolves ==
  /\ runCommand = "spo file move"
  /\ runPc = "getRequestDigest"
  /\ Answered(CallResolved(Undef))
  /\ runLogged' =
       IF runOptions.debug
       THEN CmdLog(runLogged, Str("contextResponse.WebFullUrl: "))
       ELSE runLogged
  /\ runCalls' = Append(runCalls, Call("request.post", "/recycle()"))
  /\ runPc' = "recycle"
  /\ UNCHANGED <<runCommand, runOptions, runCallbacks>>
  /\ UNCHANGED <<cliVars, renderVars, pollVars, optionVars>>

\* recycleFile: the recycle request resolves
RecycleResolves ==
  /\ runCommand = "spo file move"
  /\ runPc = "recycle"
  /\ Answered(CallResolved(Undef))
  /\ CreateCopyJobs
  /\ UNCHANGED <<runCommand, runOptions, runLogged, runCallbacks>>
  /\ UNCHANGED <<cliVars, renderVars, pollVars, optionVars>>

\* recycleFile: the recycle request rejects; 404 resolves, anything else
\* rejects and reaches the last handler of commandAction
RecycleRejects ==
  /\ runCommand = "spo file move"
  /\ runPc = "recycle"
  /\ \E err \in FileMoveErrors :
       /\ Answered(CallRejected(err))
       /\ IF GetProperty(err, "statusCode") = Num(404)
          THEN /\ CreateCopyJobs
               /\ UNCHANGED <<runLogged, runCallbacks>>
          ELSE /\ runLogged' =
                    IF runOptions.debug
                    THEN CmdLog(CmdLog(runLogged, Str("recycleFile error...")),
                                err)
                    ELSE runLogged
               /\ Complete(HandleRejectedODataJsonError(err))
               /\ UNCHANGED runCalls
  /\ UNCHANGED <<runCommand, runOptions>>
  /\ UNCHANGED <<cliVars, renderVars, pollVars, optionVars>>

\* the copy job is created: waitForJobResult is called
CopyJobCreated ==
  /\ runCommand = "spo file move"
  /\ runPc = "createCopyJobs"
  /\ Answered(CallResolved(Undef))
  /\ runCalls' = Append(runCalls, Call("waitForJobResult", ""))
  /\ runPc' = "waitForJobResult"
  /\ UNCHANGED <<runCommand, runOptions, runLogged, runCallbacks>>
  /\ UNCHANGED <<cliVars, renderVars, pollVars, optionVars>>

\* the promise of waitForJobResult resolves: the first handler of the last
\* .then
JobDone ==
  /\ runCommand = "spo file move"
  /\ runPc = "waitForJobResult"
  /\ Answered(CallResolved(Undef))
  /\ runLogged' = LogIfVerbose(runLogged, runOptions, "DONE")
  /\ Complete(NoError)
  /\ UNCHANGED <<runCommand, runOptions, runCalls>>
  /\ UNCHANGED <<cliVars, renderVars, pollVars, optionVars>>

\* fileExists, getRequestDigest, the creation of the copy job or
\* waitForJobResult rejects: the second handler of the last .then
FileMoveRejects ==
  /\ runCommand = "spo file move"
  /\ runPc \in {"fileExists", "getRequestDigest", "createCopyJobs",
                "waitForJobResult"}
  /\ \E err \in FileMoveErrors :
       /\ Answered(CallRejected(err))
       /\ Complete(HandleRejectedODataJsonError(err))
  /\ UNCHANGED <<runCommand, runOptions, runCalls, runLogged>>
  /\ UNCHANGED <<cliVars, renderVars, pollVars, optionVars>>

(***************************************************************************)
(* spo tenant appcatalog add: commandAction, ensureNoExistingSite and      *)
(* createAppCatalog.  The commands it runs through Utils.executeCommand    *)
(* are calls whose outcome is an input.                                    *)
(***************************************************************************)

RequestedUrl == "https://contoso.sharepoint.com/sites/apps"

\* what spo tenant appcatalogurl get prints: nothing, the requested URL or
\* another one
AppCatalogUrls == {"", RequestedUrl, "https://contoso.sharepoint.com/sites/old"}

AppCatalogAddOptions ==
  [url : {RequestedUrl}, force : {Undef, Bool(TRUE)}, verbose : BOOLEAN]

\* the errors the commands run by the action reject with
SiteErrors ==
  {CommandError("File Not Found.", Undef),
   CommandError("404 FILE NOT FOUND", Undef),
   CommandError("Access denied", Undef)}

\* faulty variant of IsSiteNotFound: every error counts as site not found
IsSiteNotFoundAny(err) == TRUE

\* err.message === 'File Not Found.' || err.message === '404 FILE NOT FOUND'
IsSiteNotFound(err) ==
  err.message = "File Not Found." \/ err.message = "404 FILE NOT FOUND"

\* which call of ensureNoExistingSite is under way: the one for the
\* existing app catalog URL or the one for the requested URL
EnsureStage ==
  IF runPc \in {"siteGet:existing", "siteRemove:existing"} THEN "existing"
  ELSE "requested"

\* the url of the call of ensureNoExistingSite under way
EnsuredUrl == runCalls[Len(runCalls)].target

\* ensureNoExistingSite up to the call of spo site get
EnsureNoExistingSite(url, stage, logged) ==
  /\ runLogged' = LogIfVerbose(logged, runOptions,
                               "Checking if site " \o url \o " exists...")
  /\ runCalls' = Append(runCalls, Call("spo site get", url))
  /\ runPc' = IF stage = "existing" THEN "siteGet:existing"
              ELSE "siteGet:requested"

\* createAppCatalog
CreateAppCatalog(logged) ==
  /\ runLogged' = LogIfVerbose(logged, runOptions,
       "Creating app catalog at " \o runOptions.url \o "...")
  /\ runCalls' = Append(runCalls, Call("spo site classic add", runOptions.url))
  /\ runPc' = "siteAdd"

\* the promise of ensureNoExistingSite resolves: the next .then of
\* commandAction
EnsureResolves(logged) ==
  IF EnsureStage = "existing"
  THEN EnsureNoExistingSite(runOptions.url, "requested", logged)
  ELSE CreateAppCatalog(logged)

\* commandAction up to the call of spo tenant appcatalogurl get
AppCatalogAddAction ==
  /\ runCommand = "spo tenant appcatalog add"
  /\ runPc = "start"
  /\ runLogged' = LogIfVerbose(runLogged, runOptions,
                               "Checking for existing app catalog URL...")
  /\ runCalls' = Append(runCalls, Call("spo tenant appcatalogurl get", ""))
  /\ runPc' = "appCatalogUrlGet"
  /\ UNCHANGED <<runCommand, runOptions, runResults, runCallbacks>>
  /\ UNCHANGED <<cliVars, renderVars, pollVars, optionVars>>

\* the first .then of commandAction, and the second when no URL is found
AppCatalogUrlResolves ==
  /\ runCommand = "spo tenant appcatalog add"
  /\ runPc = "appCatalogUrlGet"
  /\ \E appCatalogUrl \in AppCatalogUrls :
       /\ Answered(CallResolved(Str(appCatalogUrl)))
       /\ IF appCatalogUrl = ""
          THEN EnsureNoExistingSite(runOptions.url, "requested",
                 LogIfVerbose(runLogged, runOptions, "No app catalog URL found"))
          ELSE EnsureNoExistingSite(appCatalogUrl, "existing",
                 LogIfVerbose(runLogged, runOptions,
                              "Found app catalog URL " \o appCatalogUrl))
  /\ UNCHANGED <<runCommand, runOptions, runCallbacks>>
  /\ UNCHANGED <<cliVars, renderVars, pollVars, optionVars>>

\* ensureNoExistingSite: spo site get resolves, a site exists at the url
SiteGetResolves ==
  /\ runCommand = "spo tenant appcatalog add"
  /\ runPc \in {"siteGet:existing", "siteGet:requested"}
  /\ Answered(CallResolved(Undef))
  /\ LET found == LogIfVerbose(runLogged, runOptions,
                               "Found site " \o EnsuredUrl)
     IN IF ~Truthy(runOptions.force)
        THEN /\ runLogged' = found
             /\ Complete(CommandError("Another site exists at " \o EnsuredUrl,
                                      Undef))
             /\ UNCHANGED runCalls
        ELSE /\ runLogged' = LogIfVerbose(found, runOptions,
                                "Deleting site " \o EnsuredUrl \o "...")
             /\ runCalls' = Append(runCalls, Call("spo site remove", EnsuredUrl))
             /\ runPc' = IF EnsureStage = "existing" THEN "siteRemove:existing"
                         ELSE "siteRemove:requested"
             /\ UNCHANGED runCallbacks
  /\ UNCHANGED <<runCommand, runOptions>>
  /\ UNCHANGED <<cliVars, renderVars, pollVars, optionVars>>

\* ensureNoExistingSite: spo site get rejects
SiteGetRejects ==
  /\ runCommand = "spo tenant appcatalog add"
  /\ runPc \in {"siteGet:existing", "siteGet:requested"}
  /\ \E err \in SiteErrors :
       /\ Answered(CallRejected(err))
       /\ IF ~IsSiteNotFound(err)
          THEN /\ Complete(err)
               /\ UNCHANGED <<runCalls, runLogged>>
          ELSE /\ EnsureResolves(LogIfVerbose(runLogged, runOptions,
                                   "No site found at " \o EnsuredUrl))
               /\ UNCHANGED runCallbacks
  /\ UNCHANGED <<runCommand, runOptions>>
  /\ UNCHANGED <<cliVars, renderVars, pollVars, optionVars>>

\* ensureNoExistingSite: spo site remove resolves
SiteRemoveResolves ==
  /\ runCommand = "spo tenant appcatalog add"
  /\ runPc \in {"siteRemove:existing", "siteRemove:requested"}
  /\ Answered(CallResolved(Undef))
  /\ EnsureResolves(runLogged)
  /\ UNCHANGED <<runCommand, runOptions, runCallbacks>>
  /\ UNCHANGED <<cliVars, renderVars, pollVars, optionVars>>

\* spo site classic add resolves: the first handler of the last .then
SiteAddResolves ==
  /\ runCommand = "spo tenant appcatalog add"
  /\ runPc = "siteAdd"
  /\ Answered(CallResolved(Undef))
  /\ runLogged' = LogIfVerbose(runLogged, runOptions, ChalkGreen("DONE"))
  /\ Complete(NoError)
  /\ UNCHANGED <<runCommand, runOptions, runCalls>>
  /\ UNCHANGED <<cliVars, renderVars, pollVars, optionVars>>

\* spo tenant appcatalogurl get, spo site remove or spo site classic add
\* rejects: the second handler of the last .then, cb(err)
AppCatalogAddRejects ==
  /\ runCommand = "spo tenant appcatalog add"
  /\ runPc \in {"appCatalogUrlGet", "siteRemove:existing",
                "siteRemove:requested", "siteAdd"}
  /\ \E err \in SiteErrors :
       /\ Answered(CallRejected(err))
       /\ Complete(err)
  /\ UNCHANGED <<runCommand, runOptions, runCalls, runLogged>>
  /\ UNCHANGED <<cliVars, renderVars, pollVars, optionVars>>

RunOptionSets ==
  [c \in {"tenant status list", "spo file move",
          "spo tenant appcatalog add"} |->
     CASE c = "tenant status list" -> StatusListOptions
       [] c = "spo file move" -> FileMoveOptions
       [] OTHER -> AppCatalogAddOptions]

InitRun ==
  /\ argv = <<>>
  /\ disk = StandardDisk
  /\ InitState
  /\ InitNoLog
  /\ InitNoPoll
  /\ InitNoOption
  /\ runCommand \in DOMAIN RunOptionSets
  /\ runOptions \in RunOptionSets[runCommand]
  /\ runPc = "start"
  /\ runCalls = <<>>
  /\ runResults = <<>>
  /\ runLogged = <<>>
  /\ runCallbacks = <<>>

NextRun ==
  \/ StatusListAction
  \/ StatusListRequest
  \/ StatusListResolves
  \/ StatusListRejects
  \/ FileMoveAction
  \/ FileExistsResolves
  \/ RequestDigestResolves
  \/ RecycleResolves
  \/ RecycleRejects
  \/ CopyJobCreated
  \/ JobDone
  \/ FileMoveRejects
  \/ AppCatalogAddAction
  \/ AppCatalogUrlResolves
  \/ SiteGetResolves
  \/ SiteGetRejects
  \/ SiteRemoveResolves
  \/ SiteAddResolves
  \/ AppCatalogAddRejects

SpecRun == InitRun /\ [][NextRun]_vars

\* the status request of tenant status list was answered and the action is
\* over
StatusAnswered ==
  /\ runCommand = "tenant status list"
  /\ runPc = "done"
  /\ Len(runCalls) = 2

\* the logged values that are results: everything but the verbose messages,
\* which are strings
ResultsLogged == SelectSeq(runLogged, LAMBDA v : v.ty # "string")

\* the services of the response the status request resolved with
ServicesReturned == GetProperty(runResult.value, "value").items

DeclaredForms ==
  LET shorts == {DShort("u"), DShort("o")}
      longs == {DLong("url"), DLong("output")}
  IN {<<f>> : f \in shorts \cup longs}
       \cup {<<a, b>> : a \in shorts, b \in longs}
       \cup {<<b, a>> : a \in shorts, b \in longs}

\* the placeholder that follows the forms: none, '<url>' or '[output]'
DeclaredPlaceholders ==
  {<<>>, <<DReq("url")>>, <<DReq("output")>>, <<DOpt("url")>>,
   <<DOpt("output")>>}

OptionDeclarations ==
  {forms \o placeholder : forms \in DeclaredForms,
                          placeholder \in DeclaredPlaceholders}

InitOption ==
  /\ argv = <<>>
  /\ disk = StandardDisk
  /\ InitState
  /\ InitNoLog
  /\ InitNoPoll
  /\ InitNoRun
  /\ optionDeclared \in OptionDeclarations
  /\ optionsExtracted = <<>>

\* the body of command.options().forEach: options.push({...})
ExtractOption ==
  /\ optionsExtracted = <<>>
  /\ optionsExtracted' = Append(optionsExtracted, GetOption(optionDeclared))
  /\ UNCHANGED optionDeclared
  /\ UNCHANGED <<cliVars, renderVars, pollVars, runVars>>

NextOption == ExtractOption

SpecOption == InitOption /\ [][NextOption]_vars

\* the forms and the placeholder of the declaration
FormsDeclared(t) ==
  {optionDeclared[i].k : i \in {j \in DOMAIN optionDeclared :
                                  optionDeclared[j].t = t}}

\* C24: a declaration with both a short and a long form, in either order,
\* gives a descriptor named by the long form; with one form only the name
\* is that form; required is true exactly when the declaration has a <...>
\* placeholder.
C24_NameIsLongForm ==
  optionsExtracted # <<>> =>
    LET option == optionsExtracted[1]
    IN /\ FormsDeclared("long") # {} => option.name \in FormsDeclared("long")
       /\ FormsDeclared("long") = {} => option.name \in FormsDeclared("short")
       /\ option.required <=> FormsDeclared("req") # {}

\* the command selected, when there is one
SelectedCommand == commands[commandToExecute]

\* C25: the registry is empty at start, is only appended to while loading
\* and never changes after loading returned; at most one command is
\* selected, it is a member of the registry, and its name or one of its
\* aliases equals the positional words joined by spaces.
C25_RegistryAndSelection ==
  /\ [](pc \in {"start", "load"} => commands = <<>>)
  /\ [][/\ IsPrefix(commands, commands')
        /\ pc # "load" => commands' = commands]_vars
  /\ [](commandToExecute # 0 =>
          /\ commandToExecute \in DOMAIN commands
          /\ currentCommandName = Join(parsedArgs.pos, " ")
          /\ \/ SelectedCommand.name = currentCommandName
             \/ \E i \in DOMAIN SelectedCommand.aliases :
                  SelectedCommand.aliases[i] = currentCommandName)
  /\ [][commandToExecute # 0 => commandToExecute' = commandToExecute]_vars

\* after full discovery, the command selected by its alias is not the first
\* of the registry
C25_Witness ==
  /\ commandToExecute > 1
  /\ Len(commands) > 1
  /\ SelectedCommand.name # currentCommandName
  /\ currentCommandName = "spo add"

\* C26: in every run of the polling loop, over any interleaving of
\* successful and rejected responses, the loop gives up once
\* progressMaxPollAttempts progress requests have been made: no further
\* request is scheduled then, and never more than progressMaxPollAttempts
\* requests are issued.
C26_PollCountBound ==
  /\ pollCount <= progressMaxPollAttempts
  /\ pollCount >= progressMaxPollAttempts => pollPc # "timer"

\* C27: in every run of the polling loop at most one of resolve and reject
\* is called, at most once; at most one progress request or timer is
\* outstanding at any time; once the promise is settled no timer remains
\* scheduled and no further progress request is issued.
C27_SingleSettlement ==
  /\ [](/\ Len(settleCalls) <= 1
        /\ requestsPending + timersScheduled <= 1
        /\ promise.state # "pending"
             => /\ requestsPending = 0
                /\ timersScheduled = 0
                /\ Len(settleCalls) = 1)
  /\ [][promise.state # "pending" => pollCount' = pollCount]_vars

\* the job is done at the second poll: resolve is the only call, after one
\* timer and two requests
C27_Witness ==
  /\ settleCalls = <<"resolve">>
  /\ promise.state = "resolved"
  /\ pollCount = 2
  /\ requestsPending = 0
  /\ timersScheduled = 0

\* the calls of spo file move, by their place in runCalls
IsExistenceCheck(i) == runCalls[i].target = "/_api/web/GetFileByServerRelativeUrl"
IsRecycle(i) == runCalls[i].target = "/recycle()"
IsRecycleStep(i) == IsRecycle(i) \/ runCalls[i].op = "getRequestDigest"
IsCopyJobCreation(i) == runCalls[i].target = "/_api/site/CreateCopyJobs"

\* call i was answered, and with success: it resolved, or it is the recycle
\* request and was rejected with status 404
CallSucceeded(i) ==
  /\ i <= Len(runResults)
  /\ \/ runResults[i].ok
     \/ /\ IsRecycle(i)
        /\ GetProperty(runResults[i].error, "statusCode") = Num(404)

CallFailed(i) == i <= Len(runResults) /\ ~CallSucceeded(i)

\* C28: spo file move checks that the source file exists before anything
\* else; the target file is recycled only when deleteIfAlreadyExists is set
\* and only before the copy job is created (a 404 of the recycle request
\* counts as success); the copy job is created only after both steps
\* succeeded; when the existence check or the recycle fails no copy job is
\* created and the callback is called with an error.
C28_FileMoveStepOrder ==
  runCommand = "spo file move" =>
    /\ Len(runCalls) >= 1 => IsExistenceCheck(1)
    /\ Len(runCalls) >= 2 => CallSucceeded(1)
    /\ \A i \in DOMAIN runCalls :
         IsRecycleStep(i) =>
           /\ Truthy(runOptions.deleteIfAlreadyExists)
           /\ \A j \in 1..(i - 1) : ~IsCopyJobCreation(j)
    /\ \A i \in DOMAIN runCalls :
         IsCopyJobCreation(i) =>
           /\ \A j \in 1..(i - 1) : CallSucceeded(j)
           /\ Truthy(runOptions.deleteIfAlreadyExists)
                => \E j \in 1..(i - 1) : IsRecycle(j)
    /\ (\E i \in DOMAIN runCalls :
          (IsExistenceCheck(i) \/ IsRecycleStep(i)) /\ CallFailed(i))
         => /\ \A j \in DOMAIN runCalls : ~IsCopyJobCreation(j)
            /\ runPc = "done"
            /\ Len(runCallbacks) = 1
            /\ runCallbacks[1].isCommandError

\* deleteIfAlreadyExists is set, the recycle request was rejected with 404
\* and the copy job is created as the fourth call
C28_Witness ==
  /\ runCommand = "spo file move"
  /\ Len(runCalls) = 4
  /\ IsRecycle(3)
  /\ IsCopyJobCreation(4)
  /\ ~runResults[3].ok
  /\ runCallbacks = <<>>

\* the calls of spo tenant appcatalog add, by their place in runCalls
IsSiteGet(i) == runCalls[i].op = "spo site get"
IsSiteRemove(i) == runCalls[i].op = "spo site remove"
IsSiteCreation(i) == runCalls[i].op = "spo site classic add"

\* the check of a url is complete: spo site get for it was answered
UrlChecked(url, before) ==
  \E j \in 1..(before - 1) :
    IsSiteGet(j) /\ runCalls[j].target = url /\ j <= Len(runResults)

\* the existing app catalog URL, "" when none was found
AppCatalogUrlFound ==
  IF Len(runResults) >= 1 /\ runResults[1].ok THEN runResults[1].value.s ELSE ""

\* C29: spo tenant appcatalog add creates the site only after the existing
\* app catalog URL (when one is found) and the requested URL were checked;
\* when a site exists at either URL and force is not set the action fails
\* with 'Another site exists at <url>' and no site is removed or created;
\* with force the site found is removed, and the removal has succeeded,
\* before the creation starts; a lookup error other than site-not-found
\* aborts without creating.
C29_NoCreationOverExistingSite ==
  runCommand = "spo tenant appcatalog add" =>
    /\ \A i \in DOMAIN runCalls :
         IsSiteCreation(i) =>
           /\ runCalls[i].target = runOptions.url
           /\ UrlChecked(runOptions.url, i)
           /\ AppCatalogUrlFound # "" => UrlChecked(AppCatalogUrlFound, i)
    /\ \A j \in DOMAIN runResults :
         (IsSiteGet(j) /\ runResults[j].ok) =>
           IF ~Truthy(runOptions.force)
           THEN /\ runPc = "done"
                /\ runCallbacks =
                     <<CommandError("Another site exists at "
                                      \o runCalls[j].target, Undef)>>
                /\ \A i \in DOMAIN runCalls :
                     ~IsSiteRemove(i) /\ ~IsSiteCreation(i)
           ELSE /\ Len(runCalls) > j
                /\ IsSiteRemove(j + 1)
                /\ runCalls[j + 1].target = runCalls[j].target
                /\ \A i \in DOMAIN runCalls :
                     (IsSiteCreation(i) /\ i > j)
                       => (j + 1 <= Len(runResults) /\ runResults[j + 1].ok)
    /\ \A j \in DOMAIN runResults :
         (IsSiteGet(j) /\ ~runResults[j].ok
            /\ runResults[j].error.message
                 \notin {"File Not Found.", "404 FILE NOT FOUND"})
           => /\ runPc = "done"
              /\ runCallbacks = <<runResults[j].error>>
              /\ \A i \in DOMAIN runCalls : ~IsSiteCreation(i)

\* with force, a site found at the existing app catalog URL and one found
\* at the requested URL were both removed before the creation started
C29_Witness ==
  /\ runCommand = "spo tenant appcatalog add"
  /\ Truthy(runOptions.force)
  /\ Len(runCalls) = 6
  /\ IsSiteRemove(3)
  /\ IsSiteRemove(5)
  /\ runCalls[3].target # runCalls[5].target
  /\ IsSiteCreation(6)
  /\ runResults[5].ok

\* the help test of lines 87-97 succeeds
HelpTriggered == ShowHelpCondition(commandToExecute, showHelp, parsedArgs)

\* execute is over for a resolved command, or waits for the completion
\* callback
RunDecided == Resolved /\ pc \in {"running", "exited"} /\ ~LoadFatal

\* C30: the action of a resolved command is invoked exactly once if and
\* only if help is not triggered, the unknown-option check passes or is
\* skipped, every required option has a value and the validation function
\* is absent or returns no string (false included); in every other case
\* it is invoked zero times.
C30_DispatchExactlyWhenValid ==
  /\ actionCalls <= 1
  /\ pc \notin {"running", "exited"} => actionCalls = 0
  /\ RunDecided =>
       (actionCalls = 1 <=>
          /\ ~HelpTriggered
          /\ (allowUnknown \/ UnknownKeys = {})
          /\ ~RequiredMissing
          /\ validationResult # "message")

\* a validation function that returns false does not block the dispatch
C30_Witness ==
  /\ RunDecided
  /\ validationResult = "false"
  /\ ~allowUnknown
  /\ actionCalls = 1
  /\ \E i \in DOMAIN DeclaredOptions : DeclaredOptions[i].required
====
